---- MODULE Spec2Model ----
(***************************************************************************)
(* The need/availability matching pipeline of HT_9_1:                      *)
(*   api.py   submit_notes -> process_note_with_nat -> entry building ->   *)
(*            find_connections_and_generate_suggestions                    *)
(*   main.py  main (rebuild path) and find_and_generate_suggestions        *)
(*   vector_store/faiss_handler.py  FAISSHandler.add / search              *)
(*   llm/sgllm.py  SuggestionGenerator.generate                            *)
(*                                                                         *)
(* Spec        the three entry points on batches of notes                  *)
(* SpecFour    the same on batches of two needs and two availabilities     *)
(* SpecIndex   FAISSHandler called on its own                              *)
(* SpecDesync  the search-and-suggest functions called with arrays that    *)
(*             do not match the entry list                                 *)
(*                                                                         *)
(* Scores are cosine similarities in units of 0.001 (1000 = 1.0).          *)
(* Positions are 0-based as in the Python code; entries[p + 1] is the      *)
(* entry at position p.                                                    *)
(***************************************************************************)
EXTENDS Integers, Sequences, FiniteSets, TLC

VARIABLES
    mode,            \* which entry point runs: "api", "main" or "fgs"
    notes,           \* per note, the class of text the extraction service returned
    sim,             \* cosine similarity of the embeddings of two texts
    pc,              \* position of the run
    noteIdx,         \* i of `for i, note_text in enumerate(notes)`
    nats,            \* processed_nats (api.py) / nats (main.py)
    entries,         \* the flat entry list: <<text, kind, note id>>
    index,           \* vectors held by indexer.index, in insertion order
    similar_pairs,   \* <<query_idx, result_idx, score>>
    pairIdx,         \* position of the loop over similar_pairs
    suggestion_id,   \* api.py counter
    suggestions,     \* api.py: returned records; fgs: printed panels
    calls,           \* log of sgllm.generate invocations: <<need, availability>>
    outcomes,        \* log of how each invocation ended
    matches,         \* log of the pairs that passed the type filter
    embedCalls,      \* number of embedder.get_embeddings calls
    searchCalls,     \* number of similarity computations / indexer.search calls
    response,        \* api.py HTTP outcome / "none"
    failure,         \* exception that ended the run or the last call, or "none"
    apiKey,          \* what os.getenv gives for the credential
    constructed,     \* the collaborators constructed so far
    artifacts,       \* main.py: whether the three cached files exist
    embeddings,      \* the array of vectors handed to the search
    added,           \* log of the arrays FAISSHandler.add has stored
    lastSearch,      \* arguments of the last FAISSHandler.search call, if any
    indexer2,        \* a second FAISSHandler instance and what its search returned
    frames,          \* per call of submit_notes, the local variables of the call
    rpc,             \* per call of submit_notes, its position
    splits,          \* graph_rag_integration.py: the chunks of the documents
    graph,           \* KnowledgeGraph.graph: nodes and undirected edges
    config,          \* GraphRAGConfig: similarity_threshold, max_traversal_depth
    query_engine,    \* GraphRAGIntegration.query_engine: "None" or "set"
    query_str,       \* the text handed to query
    similar_docs,    \* QueryEngine.query: what faiss_handler.search returned
    queue,           \* _graph_traversal: <<node, depth>> pairs waiting
    visited,         \* _graph_traversal: the nodes taken so far
    traversal_path,  \* _graph_traversal: the nodes in the order taken
    result,          \* what query returned, if it has
    db,              \* the Neo4j database: nodes, relationships, next node identity
    subgraphCalls    \* log of create_note_subgraph calls: <<note_id, subgraph_data>>

\* The variables of the note pipeline alone.
noteVars == <<notes, noteIdx, nats, entries, pairIdx, suggestion_id, suggestions,
              calls, outcomes, matches, response, apiKey, constructed, artifacts,
              embeddings>>

\* The variables the note pipeline and FAISSHandler on its own leave alone.
extVars == <<indexer2, frames, rpc, splits, graph, config, query_engine,
             query_str, similar_docs, queue, visited, traversal_path, result,
             db, subgraphCalls>>

vars == <<mode, notes, sim, pc, noteIdx, nats, entries, index, similar_pairs,
          pairIdx, suggestion_id, suggestions, calls, outcomes, matches,
          embedCalls, searchCalls, response, failure, apiKey, constructed,
          artifacts, embeddings, added, lastSearch, extVars>>

----------------------------------------------------------------------------
(* Bounds of the model *)

MaxNotes == 2

MaxEntries == 3

\* how many sgllm.generate calls of one run may fail
MaxGenFailures == 1

\* FAISSHandler driven on its own: vectors stored, rows of one array
MaxStored == 3

MaxRows == 2

\* submit_notes handled twice at once: phrases of one request
MaxReqEntries == 2

\* graph_rag_integration.py: chunks stored, nodes of the knowledge graph
MaxChunks == 3

\* neo4j_handler.py: calls of create_note_subgraph in one run
MaxSubgraphCalls == 2

(* Program constants *)

API_SIMILARITY_THRESHOLD == 1

CLI_SIMILARITY_THRESHOLD == 300

TOP_K == 5

\* FAISSHandler.__init__(dim=384) and the width of the embedder's vectors
INDEX_DIM == 384

EMBED_DIM == 384

\* FAISSHandler.search(top_k=5, threshold=0.85)
DEFAULT_THRESHOLD == 850

\* GraphRAGConfig.similarity_threshold = 0.3 and max_traversal_depth = 5
RAG_SIMILARITY_THRESHOLD == 300

MAX_TRAVERSAL_DEPTH == 5

UnitScore == 1000

PadScore == -340282346

Texts == {"a", "b"}

Modes == {"api", "main", "fgs"}

\* os.getenv("GEMINI_API_KEY") / os.getenv("OPENROUTER_API_KEY"): None, the
\* empty string or a key.
KeyValues == {"unset", "empty", "set"}

\* api.py lines 46-51 and main.py lines 89-92.
Collaborators(m) ==
    IF m = "api"
    THEN {"nat_filler", "embedder", "indexer", "sgllm", "subgraph_generator",
          "neo4j_handler"}
    ELSE {"nat_filler", "embedder", "indexer", "sgllm"}

\* What the HTTP exchange of sgllm.generate (lines 39-41) turns out to be:
\*   "text"       a reply holding candidates[0].content.parts[0].text
\*   "transport"  requests.post or raise_for_status raises a RequestException
\*   "malformed"  a body that is not JSON, lacks a key or has an empty list
\*                (JSONDecodeError, KeyError, IndexError)
\*   "wrongtype"  a JSON body in which a subscripted value is of another type,
\*                such as {"candidates": null} or a top-level list (TypeError)
Replies == {"text", "transport", "malformed", "wrongtype"}

\* sgllm.generate returns the service's text (line 41), returns its own
\* fallback literal after one of its two except clauses (lines 42-47), or
\* raises the exception those clauses do not name.
GenerateOutcome(reply) ==
    CASE reply = "text" -> "generated"
      [] reply \in {"transport", "malformed"} -> "fallback"
      [] OTHER -> "raise"

GenOutcomes == {GenerateOutcome(r) : r \in Replies}

Failures(os) == Len(SelectSeq(os, LAMBDA o : o # "generated"))

\* The outcomes the next call may have, given those of the calls so far.
NextOutcomes(os) ==
    IF Failures(os) < MaxGenFailures THEN GenOutcomes ELSE {"generated"}

----------------------------------------------------------------------------
(* Inputs *)

SeqsUpTo(S, n) == UNION {[1..k -> S] : k \in 0..n}

\* What a note's extraction text turns out to be once cleaned and handed to
\* json.loads: a JSON object (missing keys are filled by setdefault), text
\* json.loads rejects, or valid JSON that is not an object (a list, a string,
\* a number, null).
RawOutputs(budget) ==
    {[kind |-> "object", needs |-> n, avails |-> a] :
        <<n, a>> \in {p \in SeqsUpTo(Texts, budget) \X SeqsUpTo(Texts, budget) :
                        Len(p[1]) + Len(p[2]) <= budget}}
    \cup {[kind |-> k, needs |-> <<>>, avails |-> <<>>] :
            k \in {"unparseable", "nonobject"}}

RECURSIVE PhraseCount(_)
PhraseCount(batch) ==
    IF batch = <<>> THEN 0
    ELSE Len(Head(batch).needs) + Len(Head(batch).avails) + PhraseCount(Tail(batch))

\* The batches of at most k notes with at most budget phrases in all.
RECURSIVE Batches(_, _, _)
Batches(k, budget, raws) ==
    IF k = 0 THEN {<<>>}
    ELSE LET shorter == Batches(k - 1, budget, raws)
         IN  shorter \cup
             UNION {{Append(b, r) :
                        r \in {x \in raws : Len(x.needs) + Len(x.avails)
                                                <= budget - PhraseCount(b)}} :
                        b \in {s \in shorter : Len(s) = k - 1}}

\* The embedder is a function of the text and normalises its output, so the
\* score of two entries depends on their texts only, is symmetric, and is
\* 1.0 for equal texts.
SimFunctions(thr) ==
    {f \in [Texts \X Texts -> {thr - 1, thr, thr + 1, UnitScore}] :
        \A s, t \in Texts :
            /\ f[<<s, t>>] = f[<<t, s>>]
            /\ (s = t <=> f[<<s, t>>] = UnitScore)}

ThresholdOf(m) ==
    IF m = "api" THEN API_SIMILARITY_THRESHOLD ELSE CLI_SIMILARITY_THRESHOLD

Threshold == ThresholdOf(mode)

----------------------------------------------------------------------------
(* Pure functions of the code *)

\* embedder.get_embeddings: one vector per text.
Embed(text) == <<"vec", text>>

Embeddings(es) == [k \in 1..Len(es) |-> Embed(es[k][1])]

\* Inner product of two normalised embeddings (IndexFlatIP, cosine_similarity).
InnerProduct(u, v) == sim[<<u[2], v[2]>>]

NatEntries_AvailabilitiesFirst(nat) ==
    [k \in 1..Len(nat.avails) |-> <<nat.avails[k], "availability", nat.id>>]
    \o [k \in 1..Len(nat.needs) |-> <<nat.needs[k], "need", nat.id>>]

\* One note's entries: its needs, then its availabilities.
NatEntries(nat) ==
    [k \in 1..Len(nat.needs) |-> <<nat.needs[k], "need", nat.id>>]
    \o [k \in 1..Len(nat.avails) |-> <<nat.avails[k], "availability", nat.id>>]

RECURSIVE BuildEntries(_)
BuildEntries(ns) ==
    IF ns = <<>> THEN <<>>
    ELSE NatEntries(Head(ns)) \o BuildEntries(Tail(ns))

\* np.array(embedder.get_embeddings(texts)): a 2-D array, one row per text.
Array(rows) == [ndim |-> 2, dim |-> EMBED_DIM, data |-> rows]

\* Variants of the code used to test that the properties below depend on it.
CredentialMissing_Never(key) == FALSE

AddTo_Replace(stored, vectors) ==
    IF vectors.ndim = 1 THEN <<vectors.data>> ELSE vectors.data

\* `if not API_KEY:` (api.py line 43, main.py line 84)
CredentialMissing(key) == key # "set"

NoteId_Dense(i, parsed) == Len(parsed)

\* nat["id"]: the note's index in the batch (api.py lines 92, 130 and 217,
\* main.py line 141), whatever the notes before it yielded.
NoteId(i, parsed) == i

\* faiss_handler.py lines 12-13: a 1-D array becomes a batch of one row.
Promote(vectors) == IF vectors.ndim = 1 THEN <<vectors.data>> ELSE vectors.data

\* faiss's index.add refuses rows whose width is not the index's.
AddRaises(vectors) == vectors.dim # INDEX_DIM

\* faiss_handler.py line 14: the rows go after those already stored.
AddTo(stored, vectors) == stored \o Promote(vectors)

HasEntries_Always(es) == TRUE

\* `if entries:` (api.py line 234) and `if not entries:` (api.py line 141,
\* main.py lines 45 and 153).
HasEntries(es) == es # <<>>

ApiAdmits_NoSelfCheck(i, j, score) == score > API_SIMILARITY_THRESHOLD

ApiAdmits_UpperTriangle(i, j, score) == i < j /\ score > API_SIMILARITY_THRESHOLD

ApiAdmits_NonStrict(i, j, score) == i # j /\ score >= API_SIMILARITY_THRESHOLD

\* api.py line 160.
ApiAdmits(i, j, score) == i # j /\ score > API_SIMILARITY_THRESHOLD

\* api.py lines 153-161: all ordered pairs, row by row.
ApiSimilarPairs(emb) ==
    LET n == Len(emb)
        all == [k \in 1..(n * n) |->
                  <<(k - 1) \div n, (k - 1) % n,
                    InnerProduct(emb[((k - 1) \div n) + 1], emb[((k - 1) % n) + 1])>>]
    IN  SelectSeq(all, LAMBDA p : ApiAdmits(p[1], p[2], p[3]))

\* faiss IndexFlatIP.search for one query row: the stored positions by
\* descending inner product (equal scores: lower position first), cut to
\* top_k and padded with position -1 when fewer than top_k vectors are stored.
FaissRank(stored, q, id) ==
    Cardinality({x \in 1..Len(stored) :
        \/ InnerProduct(q, stored[x]) > InnerProduct(q, stored[id])
        \/ (InnerProduct(q, stored[x]) = InnerProduct(q, stored[id]) /\ x < id)})

FaissRow_TopHitRepeated(stored, q, top_k) ==
    [r \in 1..top_k |->
        IF r <= Len(stored)
        THEN LET id == CHOOSE x \in 1..Len(stored) : FaissRank(stored, q, x) = 0
             IN  <<id - 1, InnerProduct(q, stored[id])>>
        ELSE <<-1, PadScore>>]

FaissRow(stored, q, top_k) ==
    [r \in 1..top_k |->
        IF r <= Len(stored)
        THEN LET id == CHOOSE x \in 1..Len(stored) : FaissRank(stored, q, x) = r - 1
             IN  <<id - 1, InnerProduct(q, stored[id])>>
        ELSE <<-1, PadScore>>]

FaissAdmits_NonStrict(i, idx, score, threshold) == score >= threshold /\ idx # i

FaissAdmits_NoThreshold(i, idx, score, threshold) == idx # i

\* faiss_handler.py line 30.
FaissAdmits(i, idx, score, threshold) == score > threshold /\ idx # i

\* FAISSHandler.search, lines 21-33.
RECURSIVE SearchRows(_, _, _, _, _)
SearchRows(stored, query, i, top_k, threshold) ==
    IF i >= Len(query) THEN <<>>
    ELSE LET row  == FaissRow(stored, query[i + 1], top_k)
             hits == SelectSeq(row, LAMBDA h : FaissAdmits(i, h[1], h[2], threshold))
         IN  [k \in 1..Len(hits) |-> <<i, hits[k][1], hits[k][2]>>]
             \o SearchRows(stored, query, i + 1, top_k, threshold)

FaissSearch(stored, query, top_k, threshold) ==
    SearchRows(stored, query, 0, top_k, threshold)

\* What raises inside the try block of FAISSHandler.search: faiss's
\* index.search on an array that is not 2-D or whose width is not the
\* index's (line 21), and scores.min() on the result of a query of no rows
\* (line 24).
SearchRaises(query) ==
    query.ndim # 2 \/ query.dim # INDEX_DIM \/ query.data = <<>>

\* FAISSHandler.search, lines 16-38: `except Exception` returns [].
Search(stored, query, top_k, threshold) ==
    IF SearchRaises(query) THEN <<>>
    ELSE FaissSearch(stored, query.data, top_k, threshold)

SearchArgs(stored, query, top_k, threshold) ==
    [query |-> query, top_k |-> top_k, threshold |-> threshold,
     ntotal |-> Len(stored)]

\* entries[query_idx] and entries[result_idx] exist (api.py lines 168-169,
\* main.py lines 57-58); otherwise the subscript raises IndexError.
InRange(es, query_idx, result_idx) ==
    /\ 0 <= query_idx /\ query_idx < Len(es)
    /\ 0 <= result_idx /\ result_idx < Len(es)

TypeFilter_NeedOnly(es, query_idx, result_idx) == es[query_idx + 1][2] = "need"

TypeFilter_OtherNote(es, query_idx, result_idx) ==
    /\ es[query_idx + 1][2] = "need" /\ es[result_idx + 1][2] = "availability"
    /\ es[query_idx + 1][3] # es[result_idx + 1][3]

\* api.py line 173, main.py line 60.
TypeFilter(es, query_idx, result_idx) ==
    es[query_idx + 1][2] = "need" /\ es[result_idx + 1][2] = "availability"

GenerateArgs_Swapped(es, query_idx, result_idx) ==
    <<es[result_idx + 1][1], es[query_idx + 1][1]>>

IdAfter_EveryPair(sid, retained) == sid + 1

\* The arguments of sgllm.generate: api.py lines 174-175 and 183, main.py
\* lines 61-62 and 65.
GenerateArgs(es, query_idx, result_idx) ==
    <<es[query_idx + 1][1], es[result_idx + 1][1]>>

\* api.py lines 166 and 196: the counter moves inside the type filter's branch.
IdAfter(sid, retained) == IF retained THEN sid + 1 ELSE sid

\* sgllm.py line 41: the text of the service's reply.
GeneratedText(need, availability) == <<"generated", need, availability>>

\* sgllm.py line 47.
GeneratorFallback == <<"Could not generate a suggestion due to an error.", "", "">>

\* What sgllm.generate hands back when it returns.
ReturnedText(o, need, availability) ==
    IF o = "fallback" THEN GeneratorFallback ELSE GeneratedText(need, availability)

\* api.py line 187.
OrchestratorFallback == <<"Could not generate suggestion: ", "error", "">>

TextOf(es, p) == es[p + 1][1]

\* f"sugg_{suggestion_id}" and str(need_note_id)
SuggId(k) == <<"sugg_", k>>

Str(n) == <<"str", n>>

\* api.py lines 189-195.
ApiRecord(es, query_idx, result_idx, score, sid, text) ==
    [id           |-> SuggId(sid),
     noteId       |-> Str(es[query_idx + 1][3]),
     need         |-> es[query_idx + 1][1],
     availability |-> es[result_idx + 1][1],
     suggestion   |-> text]

\* f"{score:.2f}": hundredths, rounded.
Fmt2(score) == (score + 5) \div 10

\* main.py lines 66-73.
Panel(es, query_idx, result_idx, score, text) ==
    [need         |-> es[query_idx + 1][1],
     availability |-> es[result_idx + 1][1],
     suggestion   |-> text,
     subtitle     |-> Fmt2(score)]

----------------------------------------------------------------------------
(* Initial states *)

\* nats of a batch whose notes all parsed: what a caller of
\* find_and_generate_suggestions built its entry list from.
ParsedNats(batch) ==
    [k \in 1..Len(batch) |->
        [id |-> k - 1, needs |-> batch[k].needs, avails |-> batch[k].avails]]

\* What the variables of the other parts hold while a part runs on its own.
NoIndexer == [index |-> <<>>, results |-> <<>>]

NoGraph == [nodes |-> {}, edges |-> {}]

NoConfig == [similarity_threshold |-> 0, max_traversal_depth |-> 0]

EmptyDb == [nodes |-> {}, rels |-> {}, next |-> 1]

ExtIdle ==
    /\ indexer2 = NoIndexer
    /\ frames = <<>> /\ rpc = <<>>
    /\ splits = <<>> /\ graph = NoGraph /\ config = NoConfig
    /\ query_engine = "None" /\ query_str = "" /\ similar_docs = <<>>
    /\ queue = <<>> /\ visited = {} /\ traversal_path = <<>> /\ result = <<>>
    /\ db = EmptyDb /\ subgraphCalls = <<>>

Start(m, batch, f, key, files) ==
    /\ ExtIdle
    /\ mode = m
    /\ apiKey = key
    /\ artifacts = files
    /\ added = <<>>
    /\ lastSearch = <<>>
    /\ notes = batch
    /\ sim = f
    /\ noteIdx = 0
    /\ similar_pairs = <<>>
    /\ pairIdx = 0
    /\ suggestion_id = 1
    /\ suggestions = <<>>
    /\ calls = <<>>
    /\ outcomes = <<>>
    /\ matches = <<>>
    /\ embedCalls = 0
    /\ searchCalls = 0
    /\ response = "none"
    /\ failure = "none"
    /\ IF m = "fgs"
       THEN \* find_and_generate_suggestions(entries, embeddings, indexer, ...):
            \* the caller has built the entries and added their embeddings.
            /\ \A k \in 1..Len(batch) : batch[k].kind = "object"
            /\ nats = ParsedNats(batch)
            /\ entries = BuildEntries(nats)
            /\ embeddings = Embeddings(entries)
            /\ index = Embeddings(entries)
            /\ constructed = Collaborators(m)
            /\ pc = "search"
       ELSE /\ nats = <<>>
            /\ entries = <<>>
            /\ embeddings = <<>>
            /\ index = <<>>
            /\ constructed = {}
            /\ pc = "init"

\* The phrases of a batch in the order of the notes.
RECURSIVE Phrases(_)
Phrases(batch) ==
    IF batch = <<>> THEN <<>>
    ELSE Head(batch).needs \o Head(batch).avails \o Phrases(Tail(batch))

\* The texts are interchangeable: nothing in the code or in SimFunctions tells
\* one from the other.  Batches are therefore taken up to renaming, the first
\* phrase of a batch being "a".
UpToRenaming(batch) == Phrases(batch) = <<>> \/ Phrases(batch)[1] = "a"

NoteBatches ==
    {b \in Batches(MaxNotes, MaxEntries, RawOutputs(MaxEntries)) : UpToRenaming(b)}

\* The credential may be missing where the entry point reads it; the cached
\* files matter to main() alone.
StartKeys(m) == IF m = "fgs" THEN {"set"} ELSE KeyValues

StartFiles(m) == IF m = "main" THEN {"absent", "present"} ELSE {"absent"}

Init ==
    \E m \in Modes :
        \E f \in SimFunctions(ThresholdOf(m)) :
            \E batch \in NoteBatches :
                \E key \in StartKeys(m) :
                    \E files \in StartFiles(m) : Start(m, batch, f, key, files)

\* The four-entry case: batches that parse into two needs and two
\* availabilities, in any arrangement over the notes.
RECURSIVE NeedCount(_)
NeedCount(batch) ==
    IF batch = <<>> THEN 0 ELSE Len(Head(batch).needs) + NeedCount(Tail(batch))

FourEntryBatches ==
    {b \in Batches(MaxNotes, 4, RawOutputs(4)) :
        /\ \A k \in 1..Len(b) : b[k].kind = "object"
        /\ PhraseCount(b) = 4
        /\ NeedCount(b) = 2
        /\ UpToRenaming(b)}

InitFour ==
    \E m \in {"api", "fgs"} :
        \E f \in SimFunctions(ThresholdOf(m)) :
            \E batch \in FourEntryBatches : Start(m, batch, f, "set", "absent")

----------------------------------------------------------------------------
(* api.py: submit_notes *)

\* lines 42-57, run when the module is loaded: without the credential the
\* ValueError of line 44 ends the process before line 46.
ApiInit ==
    /\ UNCHANGED extVars
    /\ mode = "api" /\ pc = "init"
    /\ IF CredentialMissing(apiKey)
       THEN /\ failure' = "ValueError"
            /\ pc' = "aborted"
            /\ UNCHANGED constructed
       ELSE /\ constructed' = Collaborators("api")
            /\ pc' = "start"
            /\ UNCHANGED failure
    /\ UNCHANGED <<mode, notes, sim, noteIdx, nats, entries, index, similar_pairs,
                   pairIdx, suggestion_id, suggestions, calls, outcomes, matches,
                   embedCalls, searchCalls, response, apiKey, artifacts,
                   embeddings, added, lastSearch>>

\* lines 208-212
ApiReceive ==
    /\ UNCHANGED extVars
    /\ UNCHANGED <<apiKey, constructed, artifacts, embeddings, added, lastSearch>>
    /\ mode = "api" /\ pc = "start"
    /\ IF notes = <<>>
       THEN response' = "400" /\ pc' = "done"
       ELSE response' = response /\ pc' = "extract"
    /\ UNCHANGED <<mode, notes, sim, noteIdx, nats, entries, index, similar_pairs,
                   pairIdx, suggestion_id, suggestions, calls, outcomes, matches,
                   failure, embedCalls, searchCalls>>

\* process_note_with_nat, lines 74-131, called at line 217.  A JSONDecodeError
\* is caught (lines 123-131); the AttributeError of nat.setdefault on a value
\* that is no dict is not, and reaches the handler's except clause (line 260).
\* The subgraph branch (lines 94-120) only sets nat["subgraph_stored"], which
\* nothing in this pipeline reads, and catches every exception.
ApiProcessNote ==
    /\ UNCHANGED extVars
    /\ UNCHANGED <<apiKey, constructed, artifacts, embeddings, added, lastSearch>>
    /\ mode = "api" /\ pc = "extract" /\ noteIdx < Len(notes)
    /\ LET raw == notes[noteIdx + 1] IN
       IF raw.kind = "nonobject"
       THEN /\ failure' = "AttributeError"
            /\ response' = "500"
            /\ pc' = "done"
            /\ UNCHANGED <<nats, noteIdx>>
       ELSE /\ nats' = Append(nats,
                  IF raw.kind = "object"
                  THEN [id |-> NoteId(noteIdx, nats), needs |-> raw.needs,
                        avails |-> raw.avails]
                  ELSE [id |-> NoteId(noteIdx, nats), needs |-> <<>>, avails |-> <<>>])
            /\ noteIdx' = noteIdx + 1
            /\ UNCHANGED <<failure, response, pc>>
    /\ UNCHANGED <<mode, notes, sim, entries, index, similar_pairs, pairIdx,
                   suggestion_id, suggestions, calls, outcomes, matches, embedCalls, searchCalls>>

\* lines 220-258: entries; with none, the response is built at once.
ApiBuildEntries ==
    /\ UNCHANGED extVars
    /\ UNCHANGED <<apiKey, constructed, artifacts, embeddings, added, lastSearch>>
    /\ mode = "api" /\ pc = "extract" /\ noteIdx = Len(notes)
    /\ entries' = BuildEntries(nats)
    /\ IF HasEntries(entries')
       THEN response' = response /\ pc' = "search"
       ELSE response' = "200" /\ pc' = "done"
    /\ UNCHANGED <<mode, notes, sim, noteIdx, nats, index, similar_pairs, pairIdx,
                   suggestion_id, suggestions, calls, outcomes, matches, failure, embedCalls, searchCalls>>

\* lines 235-236
ApiEmbed ==
    /\ UNCHANGED extVars
    /\ mode = "api" /\ pc = "search"
    /\ embedCalls' = embedCalls + 1
    /\ embeddings' = Embeddings(entries)
    /\ pc' = "find"
    /\ UNCHANGED <<mode, notes, sim, noteIdx, nats, entries, index, similar_pairs,
                   pairIdx, suggestion_id, suggestions, calls, outcomes, matches,
                   searchCalls, response, failure, apiKey, constructed, artifacts,
                   added, lastSearch>>

\* find_connections_and_generate_suggestions, lines 141-166: nothing to do
\* without entries (line 141) or without embeddings (line 147).
ApiSearch ==
    /\ UNCHANGED extVars
    /\ UNCHANGED <<apiKey, constructed, artifacts, embeddings, added, lastSearch>>
    /\ mode = "api" /\ pc = "find"
    /\ IF HasEntries(entries) /\ Len(embeddings) > 0
       THEN /\ searchCalls' = searchCalls + 1
            /\ similar_pairs' = ApiSimilarPairs(embeddings)
            /\ suggestion_id' = 1
            /\ pairIdx' = 0
            /\ pc' = "loop"
       ELSE /\ pc' = "return"
            /\ UNCHANGED <<searchCalls, similar_pairs, suggestion_id, pairIdx>>
    /\ UNCHANGED <<mode, notes, sim, noteIdx, nats, entries, index, suggestions,
                   calls, outcomes, matches, response, failure, embedCalls>>

\* one iteration of the loop of lines 167-196.  A pair that points past the
\* entry list raises IndexError at line 168 or 169; the except clause of line
\* 198 prints it and the function returns the suggestions made so far.
ApiLoop ==
    /\ UNCHANGED extVars
    /\ UNCHANGED <<apiKey, constructed, artifacts, embeddings, added, lastSearch>>
    /\ mode = "api" /\ pc = "loop" /\ pairIdx < Len(similar_pairs)
    /\ LET pair       == similar_pairs[pairIdx + 1]
           query_idx  == pair[1]
           result_idx == pair[2]
           score      == pair[3]
       IN  IF InRange(entries, query_idx, result_idx)
           THEN /\ IF TypeFilter(entries, query_idx, result_idx)
                   THEN \E o \in NextOutcomes(outcomes) :
                          LET need_text         == GenerateArgs(entries, query_idx, result_idx)[1]
                              availability_text == GenerateArgs(entries, query_idx, result_idx)[2]
                              text == IF o = "raise" THEN OrchestratorFallback
                                      ELSE ReturnedText(o, need_text, availability_text)
                          IN  /\ calls' = Append(calls, GenerateArgs(entries, query_idx, result_idx))
                              /\ outcomes' = Append(outcomes, o)
                              /\ matches' = Append(matches, pair)
                              /\ suggestions' = Append(suggestions,
                                    ApiRecord(entries, query_idx, result_idx, score,
                                              suggestion_id, text))
                   ELSE UNCHANGED <<calls, outcomes, matches, suggestions>>
                /\ suggestion_id' = IdAfter(suggestion_id,
                                            TypeFilter(entries, query_idx, result_idx))
                /\ pairIdx' = pairIdx + 1
                /\ pc' = pc
           ELSE /\ pc' = "return"
                /\ UNCHANGED <<calls, outcomes, matches, suggestions,
                               suggestion_id, pairIdx>>
    /\ UNCHANGED <<mode, notes, sim, noteIdx, nats, entries, index,
                   similar_pairs, response, failure, embedCalls, searchCalls>>

\* lines 201-202 and 239-258
ApiRespond ==
    /\ UNCHANGED extVars
    /\ UNCHANGED <<apiKey, constructed, artifacts, embeddings, added, lastSearch>>
    /\ mode = "api"
    /\ \/ pc = "loop" /\ pairIdx = Len(similar_pairs)
       \/ pc = "return"
    /\ response' = "200"
    /\ pc' = "done"
    /\ UNCHANGED <<mode, notes, sim, noteIdx, nats, entries, index, similar_pairs,
                   pairIdx, suggestion_id, suggestions, calls, outcomes, matches,
                   failure, embedCalls, searchCalls>>

----------------------------------------------------------------------------
(* main.py: main, building from scratch *)

\* lines 83-92: without the credential main() prints an error and returns.
MainInit ==
    /\ UNCHANGED extVars
    /\ mode = "main" /\ pc = "init"
    /\ IF CredentialMissing(apiKey)
       THEN /\ pc' = "aborted"
            /\ UNCHANGED constructed
       ELSE /\ constructed' = Collaborators("main")
            /\ pc' = "start"
    /\ UNCHANGED <<mode, notes, sim, noteIdx, nats, entries, index, similar_pairs,
                   pairIdx, suggestion_id, suggestions, calls, outcomes, matches,
                   embedCalls, searchCalls, response, failure, apiKey, artifacts,
                   embeddings, added, lastSearch>>

\* lines 96-98: with the three cached files in place main() calls
\* indexer.load_index, which FAISSHandler does not define; the AttributeError
\* ends the run before the entries and the embeddings are read.
MainLoadIndex ==
    /\ UNCHANGED extVars
    /\ mode = "main" /\ pc = "start" /\ artifacts = "present"
    /\ failure' = "AttributeError"
    /\ pc' = "crashed"
    /\ UNCHANGED <<mode, notes, sim, noteIdx, nats, entries, index, similar_pairs,
                   pairIdx, suggestion_id, suggestions, calls, outcomes, matches,
                   embedCalls, searchCalls, response, apiKey, constructed,
                   artifacts, embeddings, added, lastSearch>>

\* lines 113-118
MainLoadNotes ==
    /\ UNCHANGED extVars
    /\ UNCHANGED <<apiKey, constructed, artifacts, embeddings, added, lastSearch>>
    /\ mode = "main" /\ pc = "start" /\ artifacts = "absent"
    /\ pc' = IF notes = <<>> THEN "done" ELSE "extract"
    /\ UNCHANGED <<mode, notes, sim, noteIdx, nats, entries, index, similar_pairs,
                   pairIdx, suggestion_id, suggestions, calls, outcomes, matches,
                   response, failure, embedCalls, searchCalls>>

\* lines 121-144: an unparseable note is skipped; the AttributeError of
\* nat.setdefault on a value that is no dict is not caught and ends the run.
MainProcessNote ==
    /\ UNCHANGED extVars
    /\ UNCHANGED <<apiKey, constructed, artifacts, embeddings, added, lastSearch>>
    /\ mode = "main" /\ pc = "extract" /\ noteIdx < Len(notes)
    /\ LET raw == notes[noteIdx + 1] IN
       IF raw.kind = "nonobject"
       THEN /\ failure' = "AttributeError"
            /\ pc' = "crashed"
            /\ UNCHANGED <<nats, noteIdx>>
       ELSE /\ nats' = IF raw.kind = "object"
                       THEN Append(nats, [id |-> NoteId(noteIdx, nats),
                                          needs |-> raw.needs,
                                          avails |-> raw.avails])
                       ELSE nats
            /\ noteIdx' = noteIdx + 1
            /\ UNCHANGED <<failure, pc>>
    /\ UNCHANGED <<mode, notes, sim, entries, index, similar_pairs, pairIdx,
                   suggestion_id, suggestions, calls, outcomes, matches, response, embedCalls, searchCalls>>

\* lines 146-155
MainBuildEntries ==
    /\ UNCHANGED extVars
    /\ UNCHANGED <<apiKey, constructed, artifacts, embeddings, added, lastSearch>>
    /\ mode = "main" /\ pc = "extract" /\ noteIdx = Len(notes)
    /\ entries' = BuildEntries(nats)
    /\ pc' = IF HasEntries(entries') THEN "index" ELSE "done"
    /\ UNCHANGED <<mode, notes, sim, noteIdx, nats, index, similar_pairs, pairIdx,
                   suggestion_id, suggestions, calls, outcomes, matches, response,
                   failure, embedCalls, searchCalls>>

\* lines 157-160: embed and FAISSHandler.add (faiss_handler.py lines 11-14)
MainAdd ==
    /\ UNCHANGED extVars
    /\ UNCHANGED <<apiKey, constructed, artifacts, lastSearch>>
    /\ mode = "main" /\ pc = "index"
    /\ embedCalls' = embedCalls + 1
    /\ embeddings' = Embeddings(entries)
    /\ index' = AddTo(index, Array(embeddings'))
    /\ added' = Append(added, Array(embeddings'))
    /\ pc' = "save"
    /\ UNCHANGED <<mode, notes, sim, noteIdx, nats, entries, similar_pairs, pairIdx,
                   suggestion_id, suggestions, calls, outcomes, matches, response,
                   failure, searchCalls>>

\* line 164: FAISSHandler defines no save_index; the call raises.
MainSave ==
    /\ UNCHANGED extVars
    /\ UNCHANGED <<apiKey, constructed, artifacts, embeddings, added, lastSearch>>
    /\ mode = "main" /\ pc = "save"
    /\ failure' = "AttributeError"
    /\ pc' = "crashed"
    /\ UNCHANGED <<mode, notes, sim, noteIdx, nats, entries, index, similar_pairs,
                   pairIdx, suggestion_id, suggestions, calls, outcomes, matches,
                   response, embedCalls, searchCalls>>

----------------------------------------------------------------------------
(* main.py: find_and_generate_suggestions *)

\* lines 45-54
FgsSearch ==
    /\ UNCHANGED extVars
    /\ UNCHANGED <<apiKey, constructed, artifacts, embeddings, added>>
    /\ mode = "fgs" /\ pc = "search"
    /\ IF HasEntries(entries)
       THEN /\ similar_pairs' = Search(index, Array(embeddings), TOP_K,
                                       CLI_SIMILARITY_THRESHOLD)
            /\ lastSearch' = <<SearchArgs(index, Array(embeddings), TOP_K,
                                          CLI_SIMILARITY_THRESHOLD)>>
            /\ searchCalls' = searchCalls + 1
            /\ pc' = IF similar_pairs' = <<>> THEN "done" ELSE "loop"
       ELSE /\ pc' = "done"
            /\ UNCHANGED <<similar_pairs, searchCalls, lastSearch>>
    /\ UNCHANGED <<mode, notes, sim, noteIdx, nats, entries, index, pairIdx,
                   suggestion_id, suggestions, calls, outcomes, matches, response,
                   failure, embedCalls>>

\* one iteration of the loop of lines 56-75; sgllm.generate is called bare,
\* so an exception it raises leaves the function, as does the IndexError of
\* a pair that points past the entry list (lines 57-58).
FgsLoop ==
    /\ UNCHANGED extVars
    /\ UNCHANGED <<apiKey, constructed, artifacts, embeddings, added, lastSearch>>
    /\ mode = "fgs" /\ pc = "loop" /\ pairIdx < Len(similar_pairs)
    /\ LET pair       == similar_pairs[pairIdx + 1]
           query_idx  == pair[1]
           result_idx == pair[2]
           score      == pair[3]
       IN  IF ~InRange(entries, query_idx, result_idx)
           THEN /\ failure' = "IndexError"
                /\ pc' = "crashed"
                /\ UNCHANGED <<calls, outcomes, matches, suggestions, pairIdx>>
           ELSE
           IF TypeFilter(entries, query_idx, result_idx)
           THEN \E o \in NextOutcomes(outcomes) :
                  LET need_text         == GenerateArgs(entries, query_idx, result_idx)[1]
                      availability_text == GenerateArgs(entries, query_idx, result_idx)[2]
                  IN  /\ calls' = Append(calls, GenerateArgs(entries, query_idx, result_idx))
                      /\ outcomes' = Append(outcomes, o)
                      /\ matches' = Append(matches, pair)
                      /\ IF o = "raise"
                         THEN /\ failure' = "GeneratorError"
                              /\ pc' = "crashed"
                              /\ UNCHANGED <<suggestions, pairIdx>>
                         ELSE /\ suggestions' = Append(suggestions,
                                    Panel(entries, query_idx, result_idx, score,
                                          ReturnedText(o, need_text, availability_text)))
                              /\ pairIdx' = pairIdx + 1
                              /\ UNCHANGED <<failure, pc>>
           ELSE /\ pairIdx' = pairIdx + 1
                /\ UNCHANGED <<calls, outcomes, matches, suggestions, failure, pc>>
    /\ UNCHANGED <<mode, notes, sim, noteIdx, nats, entries, index, similar_pairs,
                   suggestion_id, response, embedCalls, searchCalls>>

FgsReturn ==
    /\ UNCHANGED extVars
    /\ UNCHANGED <<apiKey, constructed, artifacts, embeddings, added, lastSearch>>
    /\ mode = "fgs" /\ pc = "loop" /\ pairIdx = Len(similar_pairs)
    /\ pc' = "done"
    /\ UNCHANGED <<mode, notes, sim, noteIdx, nats, entries, index, similar_pairs,
                   pairIdx, suggestion_id, suggestions, calls, outcomes, matches,
                   response, failure, embedCalls, searchCalls>>

----------------------------------------------------------------------------
(* find_connections_and_generate_suggestions and find_and_generate_suggestions
   called with an entry list and arrays that do not match it in length *)

\* The entry lists of the batches whose notes all parse, the empty one aside.
EntryLists ==
    {BuildEntries(ParsedNats(b)) :
        b \in {x \in NoteBatches : /\ \A k \in 1..Len(x) : x[k].kind = "object"
                                   /\ PhraseCount(x) > 0}}

\* Arrays one row shorter or one row longer than the entry list.
Mismatched(es) ==
    {SubSeq(Embeddings(es), 1, Len(es) - 1)}
    \cup {Append(Embeddings(es), Embed(t)) : t \in Texts}

InitDesync ==
    /\ ExtIdle
    /\ mode \in {"api", "fgs"}
    /\ sim \in SimFunctions(ThresholdOf(mode))
    /\ entries \in EntryLists
    /\ embeddings \in Mismatched(entries)
    /\ index = IF mode = "fgs" THEN embeddings ELSE <<>>
    /\ pc = IF mode = "fgs" THEN "search" ELSE "find"
    /\ constructed = Collaborators(mode)
    /\ apiKey = "set"
    /\ artifacts = "absent"
    /\ notes = <<>> /\ noteIdx = 0 /\ nats = <<>>
    /\ added = <<>> /\ lastSearch = <<>>
    /\ similar_pairs = <<>> /\ pairIdx = 0
    /\ suggestion_id = 1 /\ suggestions = <<>>
    /\ calls = <<>> /\ outcomes = <<>> /\ matches = <<>>
    /\ embedCalls = 0 /\ searchCalls = 0
    /\ response = "none" /\ failure = "none"

NextDesync ==
    \/ ApiSearch
    \/ ApiLoop
    \/ ApiRespond
    \/ FgsSearch
    \/ FgsLoop
    \/ FgsReturn

SpecDesync == InitDesync /\ [][NextDesync]_vars

----------------------------------------------------------------------------
(* vector_store/faiss_handler.py: FAISSHandler called on its own, as
   test_faiss.py and graph_rag_integration.py call it: vectors are added,
   then the index is searched.  A search reads the index and changes nothing,
   so one search after any sequence of add calls stands for all. *)

\* A width that is not the index's.
WrongDim == 2 * INDEX_DIM

RowSeqs(n) == UNION {[1..k -> {Embed(t) : t \in Texts}] : k \in 1..n}

\* Arrays a caller may hand to add: a single vector, a batch of rows, or a
\* batch whose rows have another width.
AddInputs ==
    {[ndim |-> 1, dim |-> INDEX_DIM, data |-> Embed(t)] : t \in Texts}
    \cup {[ndim |-> 2, dim |-> INDEX_DIM, data |-> r] : r \in RowSeqs(MaxRows)}
    \cup {[ndim |-> 2, dim |-> WrongDim, data |-> <<Embed("a")>>]}

\* Arrays a caller may hand to search: rows of the index's width, rows of
\* another width, a single vector that was not reshaped, no rows at all.
QueryInputs ==
    {[ndim |-> 2, dim |-> INDEX_DIM, data |-> r] : r \in RowSeqs(MaxRows)}
    \cup {[ndim |-> 2, dim |-> WrongDim, data |-> <<Embed("a")>>],
          [ndim |-> 1, dim |-> INDEX_DIM, data |-> Embed("a")],
          [ndim |-> 2, dim |-> INDEX_DIM, data |-> <<>>]}

\* top_k below and above the number of vectors stored; a threshold below
\* every score, and the default one.
TopKs == {2, TOP_K}

Thresholds == {-UnitScore - 1, DEFAULT_THRESHOLD}

\* indexer = FAISSHandler()
InitIndex ==
    /\ ExtIdle
    /\ mode = "handler"
    /\ pc = "ready"
    /\ sim \in SimFunctions(DEFAULT_THRESHOLD)
    /\ index = <<>>
    /\ added = <<>>
    /\ lastSearch = <<>>
    /\ similar_pairs = <<>>
    /\ searchCalls = 0
    /\ failure = "none"
    /\ constructed = {"indexer"}
    /\ apiKey = "set"
    /\ artifacts = "absent"
    /\ notes = <<>> /\ noteIdx = 0 /\ nats = <<>> /\ entries = <<>>
    /\ embeddings = <<>>
    /\ pairIdx = 0 /\ suggestion_id = 1 /\ suggestions = <<>>
    /\ calls = <<>> /\ outcomes = <<>> /\ matches = <<>>
    /\ embedCalls = 0
    /\ response = "none"

\* indexer.add(vectors), lines 11-14; an exception of faiss's add reaches the
\* caller and nothing is stored.
HandlerAdd ==
    /\ UNCHANGED extVars
    /\ mode = "handler" /\ pc # "searched"
    /\ \E v \in AddInputs :
          /\ Len(index) + Len(Promote(v)) <= MaxStored
          /\ IF AddRaises(v)
             THEN /\ failure' = "AssertionError"
                  /\ UNCHANGED <<index, added>>
             ELSE /\ index' = AddTo(index, v)
                  /\ added' = Append(added, v)
                  /\ failure' = "none"
    /\ pc' = "added"
    /\ UNCHANGED <<mode, notes, sim, noteIdx, nats, entries, similar_pairs,
                   pairIdx, suggestion_id, suggestions, calls, outcomes, matches,
                   embedCalls, searchCalls, response, apiKey, constructed,
                   artifacts, embeddings, lastSearch>>

\* indexer.search(query, top_k, threshold), lines 16-38: the call returns a
\* list whatever happens inside the try block.
HandlerSearch ==
    /\ UNCHANGED extVars
    /\ mode = "handler" /\ pc # "searched"
    /\ \E q \in QueryInputs, k \in TopKs, t \in Thresholds :
          /\ similar_pairs' = Search(index, q, k, t)
          /\ lastSearch' = <<SearchArgs(index, q, k, t)>>
    /\ searchCalls' = searchCalls + 1
    /\ failure' = "none"
    /\ pc' = "searched"
    /\ UNCHANGED <<mode, notes, sim, noteIdx, nats, entries, index, pairIdx,
                   suggestion_id, suggestions, calls, outcomes, matches,
                   embedCalls, response, apiKey, constructed, artifacts,
                   embeddings, added>>

NextIndex ==
    \/ HandlerAdd
    \/ HandlerSearch

SpecIndex == InitIndex /\ [][NextIndex]_vars

----------------------------------------------------------------------------
(* vector_store/faiss_handler.py: two FAISSHandler instances built one after
   the other from the same array and searched with the same arguments, as a
   caller that rebuilds its index does *)

NewIndex_SharedWithOthers(others) == others

\* FAISSHandler.__init__, line 9: each instance gets an IndexFlatIP of its own,
\* empty whatever the instances made before it hold.
NewIndex(others) == <<>>

\* The note pipeline at rest.
NotesIdle ==
    /\ apiKey = "set" /\ artifacts = "absent"
    /\ notes = <<>> /\ noteIdx = 0 /\ nats = <<>> /\ entries = <<>>
    /\ embeddings = <<>>
    /\ pairIdx = 0 /\ suggestion_id = 1 /\ suggestions = <<>>
    /\ calls = <<>> /\ outcomes = <<>> /\ matches = <<>>
    /\ response = "none"

InitRebuild ==
    /\ ExtIdle
    /\ NotesIdle
    /\ mode = "rebuild"
    /\ pc = "ready"
    /\ sim \in SimFunctions(DEFAULT_THRESHOLD)
    /\ constructed = {}
    /\ index = <<>> /\ added = <<>> /\ lastSearch = <<>>
    /\ similar_pairs = <<>>
    /\ embedCalls = 0 /\ searchCalls = 0
    /\ failure = "none"

\* indexer = FAISSHandler(); indexer.add(embeddings)   (test_faiss.py lines 28-29)
RebuildFirst ==
    /\ mode = "rebuild" /\ pc = "ready"
    /\ \E v \in {a \in AddInputs : ~AddRaises(a)} :
          /\ index' = AddTo(NewIndex(<<>>), v)
          /\ added' = <<v>>
    /\ constructed' = {"indexer"}
    /\ pc' = "first"
    /\ UNCHANGED <<mode, sim, similar_pairs, lastSearch, embedCalls, searchCalls,
                   failure, notes, noteIdx, nats, entries, pairIdx, suggestion_id,
                   suggestions, calls, outcomes, matches, response, apiKey,
                   artifacts, embeddings, extVars>>

\* the same two lines again: a second instance, the same array
RebuildSecond ==
    /\ mode = "rebuild" /\ pc = "first"
    /\ indexer2' = [index   |-> AddTo(NewIndex(index), added[1]),
                    results |-> <<>>]
    /\ constructed' = {"indexer", "indexer2"}
    /\ pc' = "second"
    /\ UNCHANGED <<mode, sim, index, added, similar_pairs, lastSearch, embedCalls,
                   searchCalls, failure, notes, noteIdx, nats, entries, pairIdx,
                   suggestion_id, suggestions, calls, outcomes, matches, response,
                   apiKey, artifacts, embeddings>>
    /\ UNCHANGED <<frames, rpc, splits, graph, config, query_engine, query_str,
                   similar_docs, queue, visited, traversal_path, result, db,
                   subgraphCalls>>

\* indexer.search(query, top_k, threshold) on both   (test_faiss.py line 35)
RebuildSearch ==
    /\ mode = "rebuild" /\ pc = "second"
    /\ \E q \in QueryInputs, k \in TopKs, t \in Thresholds :
          /\ similar_pairs' = Search(index, q, k, t)
          /\ indexer2' = [indexer2 EXCEPT !.results = Search(indexer2.index, q, k, t)]
          /\ lastSearch' = <<SearchArgs(index, q, k, t)>>
    /\ searchCalls' = searchCalls + 2
    /\ pc' = "searched"
    /\ UNCHANGED <<mode, sim, index, added, embedCalls, failure, noteVars>>
    /\ UNCHANGED <<frames, rpc, splits, graph, config, query_engine, query_str,
                   similar_docs, queue, visited, traversal_path, result, db,
                   subgraphCalls>>

NextRebuild ==
    \/ RebuildFirst
    \/ RebuildSecond
    \/ RebuildSearch

SpecRebuild == InitRebuild /\ [][NextRebuild]_vars

----------------------------------------------------------------------------
(* api.py: two POST /api/notes requests handled at the same time by the
   threads of the server.  Every name submit_notes and
   find_connections_and_generate_suggestions assign is a local of the call;
   the module-level indexer (line 48) is read and written by neither. *)

Requests == {1, 2}

FrameOf_ModuleLevel(r) == 1

\* The locals of a call live in the frame of that call.
FrameOf(r) == r

\* One note per request: what its extraction turns out to be.
ReqBatches == Batches(1, MaxReqEntries, RawOutputs(MaxReqEntries))

NewFrame ==
    [entries |-> <<>>, embeddings |-> <<>>, similar_pairs |-> <<>>, pairIdx |-> 0,
     suggestion_id |-> 1, suggestions |-> <<>>, outcomes |-> <<>>]

\* processed_nats of submit_notes, lines 215-218 with process_note_with_nat.
ApiNats(batch) ==
    [k \in 1..Len(batch) |->
        IF batch[k].kind = "object"
        THEN [id |-> NoteId(k - 1, SubSeq(batch, 1, k - 1)),
              needs |-> batch[k].needs, avails |-> batch[k].avails]
        ELSE [id |-> NoteId(k - 1, SubSeq(batch, 1, k - 1)),
              needs |-> <<>>, avails |-> <<>>]]

\* The two requests as they arrive.  They are interchangeable, and so are the
\* texts: the first request is taken to carry no more phrases than the
\* second, and the first phrase of the two batches to be "a".
ReqStarts ==
    {f \in [Requests -> {[at |-> "start", notes |-> b, response |-> "none",
                          suggestions |-> <<>>, outcomes |-> <<>>] :
                            b \in ReqBatches}] :
        /\ PhraseCount(f[1].notes) <= PhraseCount(f[2].notes)
        /\ UpToRenaming(f[1].notes \o f[2].notes)}

InitConcurrent ==
    /\ NotesIdle
    /\ mode = "concurrent"
    /\ pc = "serving"
    /\ sim \in SimFunctions(API_SIMILARITY_THRESHOLD)
    /\ constructed = Collaborators("api")
    /\ index = <<>> /\ added = <<>> /\ lastSearch = <<>>
    /\ similar_pairs = <<>>
    /\ embedCalls = 0 /\ searchCalls = 0
    /\ failure = "none"
    /\ frames = [r \in Requests |-> NewFrame]
    /\ rpc \in ReqStarts
    /\ indexer2 = NoIndexer
    /\ splits = <<>> /\ graph = NoGraph /\ config = NoConfig
    /\ query_engine = "None" /\ query_str = "" /\ similar_docs = <<>>
    /\ queue = <<>> /\ visited = {} /\ traversal_path = <<>> /\ result = <<>>
    /\ db = EmptyDb /\ subgraphCalls = <<>>

ConcurrentUnchanged ==
    UNCHANGED <<mode, sim, pc, index, similar_pairs, embedCalls, searchCalls,
                failure, added, lastSearch, noteVars, indexer2, splits, graph,
                config, query_engine, query_str, similar_docs, queue, visited,
                traversal_path, result, db, subgraphCalls>>

\* submit_notes lines 208-234: the notes of the request are extracted and the
\* entry list is built; an empty batch is answered 400, a note whose
\* extraction is no JSON object 500, a batch without entries 200.
ReqBuildEntries ==
    /\ mode = "concurrent"
    /\ \E r \in Requests :
          /\ rpc[r].at = "start"
          /\ LET batch == rpc[r].notes
                 es    == BuildEntries(ApiNats(batch))
             IN  IF batch = <<>>
                 THEN /\ rpc' = [rpc EXCEPT ![r].at = "done", ![r].response = "400"]
                      /\ UNCHANGED frames
                 ELSE IF \E k \in 1..Len(batch) : batch[k].kind = "nonobject"
                 THEN /\ rpc' = [rpc EXCEPT ![r].at = "done", ![r].response = "500"]
                      /\ UNCHANGED frames
                 ELSE /\ frames' = [frames EXCEPT ![FrameOf(r)].entries = es]
                      /\ IF HasEntries(es)
                         THEN rpc' = [rpc EXCEPT ![r].at = "embed"]
                         ELSE rpc' = [rpc EXCEPT ![r].at = "done",
                                                 ![r].response = "200"]
    /\ ConcurrentUnchanged

\* lines 235-236
ReqEmbed ==
    /\ mode = "concurrent"
    /\ \E r \in Requests :
          /\ rpc[r].at = "embed"
          /\ frames' = [frames EXCEPT ![FrameOf(r)].embeddings =
                            Embeddings(frames[FrameOf(r)].entries)]
          /\ rpc' = [rpc EXCEPT ![r].at = "find"]
    /\ ConcurrentUnchanged

\* find_connections_and_generate_suggestions, lines 141-166
ReqSearch ==
    /\ mode = "concurrent"
    /\ \E r \in Requests :
          /\ rpc[r].at = "find"
          /\ LET fr == frames[FrameOf(r)] IN
             IF HasEntries(fr.entries) /\ Len(fr.embeddings) > 0
             THEN /\ frames' = [frames EXCEPT
                        ![FrameOf(r)].similar_pairs = ApiSimilarPairs(fr.embeddings),
                        ![FrameOf(r)].suggestion_id = 1,
                        ![FrameOf(r)].pairIdx = 0]
                  /\ rpc' = [rpc EXCEPT ![r].at = "loop"]
             ELSE /\ rpc' = [rpc EXCEPT ![r].at = "return"]
                  /\ UNCHANGED frames
    /\ ConcurrentUnchanged

\* one iteration of the loop of lines 167-196
ReqLoop ==
    /\ mode = "concurrent"
    /\ \E r \in Requests :
          /\ rpc[r].at = "loop"
          /\ LET fr == frames[FrameOf(r)] IN
             /\ fr.pairIdx < Len(fr.similar_pairs)
             /\ LET pair       == fr.similar_pairs[fr.pairIdx + 1]
                    query_idx  == pair[1]
                    result_idx == pair[2]
                    score      == pair[3]
                IN  IF ~InRange(fr.entries, query_idx, result_idx)
                    THEN /\ rpc' = [rpc EXCEPT ![r].at = "return"]
                         /\ UNCHANGED frames
                    ELSE IF TypeFilter(fr.entries, query_idx, result_idx)
                    THEN \E o \in NextOutcomes(rpc[r].outcomes) :
                           LET args == GenerateArgs(fr.entries, query_idx, result_idx)
                               text == IF o = "raise" THEN OrchestratorFallback
                                       ELSE ReturnedText(o, args[1], args[2])
                           IN  /\ frames' = [frames EXCEPT
                                     ![FrameOf(r)].suggestions =
                                         Append(fr.suggestions,
                                                ApiRecord(fr.entries, query_idx,
                                                          result_idx, score,
                                                          fr.suggestion_id, text)),
                                     ![FrameOf(r)].suggestion_id =
                                         IdAfter(fr.suggestion_id, TRUE),
                                     ![FrameOf(r)].pairIdx = fr.pairIdx + 1]
                               /\ rpc' = [rpc EXCEPT ![r].outcomes =
                                              Append(rpc[r].outcomes, o)]
                    ELSE /\ frames' = [frames EXCEPT
                                ![FrameOf(r)].suggestion_id =
                                    IdAfter(fr.suggestion_id, FALSE),
                                ![FrameOf(r)].pairIdx = fr.pairIdx + 1]
                         /\ UNCHANGED rpc
    /\ ConcurrentUnchanged

\* lines 201-202 and 239-258
ReqRespond ==
    /\ mode = "concurrent"
    /\ \E r \in Requests :
          /\ \/ rpc[r].at = "return"
             \/ /\ rpc[r].at = "loop"
                /\ frames[FrameOf(r)].pairIdx = Len(frames[FrameOf(r)].similar_pairs)
          /\ rpc' = [rpc EXCEPT ![r].at = "done", ![r].response = "200",
                                ![r].suggestions = frames[FrameOf(r)].suggestions]
          /\ UNCHANGED frames
    /\ ConcurrentUnchanged

NextConcurrent ==
    \/ ReqBuildEntries
    \/ ReqEmbed
    \/ ReqSearch
    \/ ReqLoop
    \/ ReqRespond

SpecConcurrent == InitConcurrent /\ [][NextConcurrent]_vars

----------------------------------------------------------------------------
(* graph_rag_integration.py: GraphRAGIntegration (process_documents, then
   query), and QueryEngine built over an index and a knowledge graph *)

\* The elements of a set of numbers in ascending order.
RECURSIVE Ascending(_)
Ascending(S) ==
    IF S = {} THEN <<>>
    ELSE LET m == CHOOSE x \in S : \A y \in S : x <= y
         IN  <<m>> \o Ascending(S \ {m})

\* nx.Graph over the nodes 0..m-1 with any set of undirected edges.
GraphsOn(m) ==
    {[nodes |-> 0..(m - 1), edges |-> E] :
        E \in SUBSET {{i, j} : <<i, j>> \in {p \in (0..(m - 1)) \X (0..(m - 1)) :
                                               p[1] < p[2]}}}

Graphs == UNION {GraphsOn(m) : m \in 0..MaxChunks}

\* list(graph.neighbors(n)), line 247.  networkx lists them in the order the
\* edges were added, which build_graph (lines 151-159) makes the ascending one.
Neighbors(g, n) == Ascending({x \in g.nodes : {n, x} \in g.edges})

\* A caller's max_traversal_depth below the number of nodes, and the default.
TraversalDepths == {2, MAX_TRAVERSAL_DEPTH}

Configs ==
    {[similarity_threshold |-> RAG_SIMILARITY_THRESHOLD, max_traversal_depth |-> dpt] :
        dpt \in TraversalDepths}

\* The chunks the text splitter makes of a document list that is not empty.
ChunkLists == UNION {[1..k -> Texts] : k \in 1..MaxChunks}

\* query_embedding.reshape(1, -1), line 198: one query row.
QueryRow(text) == [ndim |-> 2, dim |-> EMBED_DIM, data |-> <<Embed(text)>>]

Skip_DepthOnly(current_node, depth, seen, limit) == depth > limit

\* line 239
Skip(current_node, depth, seen, limit) == current_node \in seen \/ depth > limit

\* line 236
Looping(waiting, path, limit) == waiting # <<>> /\ Len(path) < limit

\* self._generate_response, lines 254-263
GenerateResponse(relevant_content) ==
    IF relevant_content = <<>> THEN <<"I couldn't find relevant information">>
    ELSE <<"Based on the relevant information">>
         \o SubSeq(relevant_content, 1, IF Len(relevant_content) < 3
                                        THEN Len(relevant_content) ELSE 3)

RagCommon ==
    /\ NotesIdle
    /\ constructed = {"document_processor", "knowledge_graph", "embedder"}
    /\ similar_pairs = <<>>
    /\ added = <<>> /\ lastSearch = <<>>
    /\ embedCalls = 0 /\ searchCalls = 0
    /\ failure = "none"
    /\ indexer2 = NoIndexer
    /\ frames = <<>> /\ rpc = <<>>
    /\ query_str = ""
    /\ queue = <<>> /\ visited = {} /\ traversal_path = <<>> /\ result = <<>>
    /\ db = EmptyDb /\ subgraphCalls = <<>>

\* GraphRAGIntegration(config), lines 269-279: no query engine yet.
InitIntegration ==
    /\ RagCommon
    /\ mode = "rag"
    /\ pc = "ready"
    /\ sim \in SimFunctions(RAG_SIMILARITY_THRESHOLD)
    /\ config \in Configs
    /\ index = <<>>
    /\ splits = <<>>
    /\ graph = NoGraph
    /\ query_engine = "None"
    /\ similar_docs = <<>>

\* QueryEngine(faiss_handler, knowledge_graph, config), lines 186-189: an
\* index holding the chunks' vectors and a graph.
InitEngine ==
    /\ RagCommon
    /\ mode = "engine"
    /\ pc = "ready"
    /\ sim \in SimFunctions(RAG_SIMILARITY_THRESHOLD)
    /\ config \in Configs
    /\ splits \in {<<>>} \cup ChunkLists
    /\ index = [k \in 1..Len(splits) |-> Embed(splits[k])]
    /\ graph \in Graphs
    /\ query_engine = "set"
    /\ similar_docs = <<>>

InitRag == InitIntegration \/ InitEngine

RagUnchanged ==
    UNCHANGED <<noteVars, similar_pairs, indexer2, frames, rpc, db, subgraphCalls>>

\* GraphRAGIntegration.process_documents, line 286, into
\* DocumentProcessor.process_documents, lines 86-105: split, embed each chunk,
\* make a FAISSHandler and add the vectors.
RagAdd ==
    /\ mode = "rag" /\ pc = "ready"
    /\ \E chunks \in ChunkLists :
          /\ splits' = chunks
          /\ embedCalls' = embedCalls + Len(chunks)
          /\ index' = AddTo(NewIndex(index), Array(Embeddings([k \in 1..Len(chunks) |->
                                                                <<chunks[k]>>])))
          /\ added' = <<Array(Embeddings([k \in 1..Len(chunks) |-> <<chunks[k]>>]))>>
    /\ pc' = "save"
    /\ UNCHANGED <<mode, sim, lastSearch, searchCalls, failure, graph, config,
                   query_engine, query_str, similar_docs, queue, visited,
                   traversal_path, result>>
    /\ RagUnchanged

\* line 108: FAISSHandler defines no save_index.  The AttributeError leaves
\* both process_documents; lines 110 and 289-299 are not run, so the graph is
\* not built and query_engine stays None.
RagSaveIndex ==
    /\ mode = "rag" /\ pc = "save"
    /\ failure' = "AttributeError"
    /\ pc' = "failed"
    /\ UNCHANGED <<mode, sim, index, added, lastSearch, embedCalls, searchCalls,
                   splits, graph, config, query_engine, query_str, similar_docs,
                   queue, visited, traversal_path, result>>
    /\ RagUnchanged

\* GraphRAGIntegration.query, lines 303-308, without a query engine.
RagQuery ==
    /\ mode = "rag" /\ pc \in {"ready", "failed"}
    /\ query_engine = "None"
    /\ \E q \in Texts : query_str' = q
    /\ failure' = "ValueError"
    /\ pc' = "refused"
    /\ UNCHANGED <<mode, sim, index, added, lastSearch, embedCalls, searchCalls,
                   splits, graph, config, query_engine, similar_docs, queue,
                   visited, traversal_path, result>>
    /\ RagUnchanged

\* QueryEngine.query, lines 194-201
EngineSearch ==
    /\ mode = "engine" /\ pc = "ready"
    /\ \E q \in Texts :
          /\ query_str' = q
          /\ similar_docs' = Search(index, QueryRow(q), TOP_K,
                                    config.similarity_threshold)
          /\ lastSearch' = <<SearchArgs(index, QueryRow(q), TOP_K,
                                        config.similarity_threshold)>>
    /\ embedCalls' = embedCalls + 1
    /\ searchCalls' = searchCalls + 1
    /\ pc' = "traverse"
    /\ UNCHANGED <<mode, sim, index, added, failure, splits, graph, config,
                   query_engine, queue, visited, traversal_path, result>>
    /\ RagUnchanged

\* _graph_traversal, lines 225-234
TraversalStart ==
    /\ mode \in {"engine", "traversal"} /\ pc = "traverse"
    /\ IF similar_docs = <<>>
       THEN /\ pc' = "combine"
            /\ UNCHANGED queue
       ELSE /\ queue' = << <<similar_docs[1][2], 0>> >>
            /\ pc' = "bfs"
    /\ visited' = {}
    /\ traversal_path' = <<>>
    /\ UNCHANGED <<mode, sim, index, added, lastSearch, embedCalls, searchCalls,
                   failure, splits, graph, config, query_engine, query_str,
                   similar_docs, result>>
    /\ RagUnchanged

\* one iteration of the loop of lines 236-250
TraversalStep ==
    /\ mode \in {"engine", "traversal"} /\ pc = "bfs"
    /\ Looping(queue, traversal_path, config.max_traversal_depth)
    /\ LET current_node == queue[1][1]
           depth        == queue[1][2]
       IN  IF Skip(current_node, depth, visited, config.max_traversal_depth)
           THEN /\ queue' = Tail(queue)
                /\ UNCHANGED <<visited, traversal_path>>
           ELSE /\ visited' = visited \cup {current_node}
                /\ traversal_path' = Append(traversal_path, current_node)
                /\ queue' =
                      IF current_node \in graph.nodes
                      THEN LET fresh == SelectSeq(Neighbors(graph, current_node),
                                                  LAMBDA n : n \notin visited')
                           IN  Tail(queue)
                               \o [k \in 1..Len(fresh) |-> <<fresh[k], depth + 1>>]
                      ELSE Tail(queue)
    /\ UNCHANGED <<mode, sim, pc, index, added, lastSearch, embedCalls, searchCalls,
                   failure, splits, graph, config, query_engine, query_str,
                   similar_docs, result>>
    /\ RagUnchanged

\* line 252
TraversalReturn ==
    /\ mode \in {"engine", "traversal"} /\ pc = "bfs"
    /\ ~Looping(queue, traversal_path, config.max_traversal_depth)
    /\ pc' = "combine"
    /\ UNCHANGED <<mode, sim, index, added, lastSearch, embedCalls, searchCalls,
                   failure, splits, graph, config, query_engine, query_str,
                   similar_docs, queue, visited, traversal_path, result>>
    /\ RagUnchanged

\* QueryEngine.query, lines 207-221: the contents of the hits and of the path
\* that are nodes of the graph (the content of node n is chunk n).
EngineRespond ==
    /\ mode = "engine" /\ pc = "combine"
    /\ LET all_relevant_nodes ==
               Ascending(({similar_docs[k][2] : k \in 1..Len(similar_docs)}
                          \cup {traversal_path[k] : k \in 1..Len(traversal_path)})
                         \cap graph.nodes)
           relevant_content ==
               [k \in 1..Len(all_relevant_nodes) |-> <<"content", all_relevant_nodes[k]>>]
       IN  result' = <<[response |-> GenerateResponse(relevant_content),
                        traversal_path |-> traversal_path,
                        relevant_content |-> relevant_content]>>
    /\ pc' = "queried"
    /\ UNCHANGED <<mode, sim, index, added, lastSearch, embedCalls, searchCalls,
                   failure, splits, graph, config, query_engine, query_str,
                   similar_docs, queue, visited, traversal_path>>
    /\ RagUnchanged

NextRag ==
    \/ RagAdd
    \/ RagSaveIndex
    \/ RagQuery
    \/ EngineSearch
    \/ TraversalStart
    \/ TraversalStep
    \/ TraversalReturn
    \/ EngineRespond

SpecRag == InitRag /\ [][NextRag]_vars

\* _graph_traversal(query_embedding, similar_docs) called on any graph.  It
\* reads the first hit alone (line 229), so one hit stands for a list of hits.
InitTraversal ==
    /\ RagCommon
    /\ mode = "traversal"
    /\ pc = "traverse"
    /\ sim \in SimFunctions(RAG_SIMILARITY_THRESHOLD)
    /\ config \in Configs
    /\ splits = <<>>
    /\ index = <<>>
    /\ graph \in Graphs
    /\ query_engine = "set"
    /\ similar_docs \in {<<>>} \cup {<< <<0, n, UnitScore>> >> : n \in 0..(MaxChunks - 1)}

NextTraversal ==
    \/ TraversalStart
    \/ TraversalStep
    \/ TraversalReturn

\* The interpreter keeps running the loop: a step that can be taken is taken.
SpecTraversal == InitTraversal /\ [][NextTraversal]_vars /\ WF_vars(NextTraversal)

----------------------------------------------------------------------------
(* graph_db/neo4j_handler.py: Neo4jHandler.create_note_subgraph on a database
   that nothing else writes to.  A stored node is a record with the
   database's own identity uid; a relationship names the uids it joins and
   the statement that made it. *)

\* str(note_id), api.py line 108: the position of the note in its batch.
NoteIds == {"0", "1"}

NodeLists == {<<>>, <<"x">>, <<"y">>, <<"x", "y">>}

EdgeLists == {<<>>, << <<"x", "y">> >>}

Contexts == {"c1", "c2"}

\* subgraph_data: 'nodes', 'edges' and 'context'
SubgraphData ==
    {[nodes |-> ns, edges |-> es, context |-> c] :
        ns \in NodeLists, es \in EdgeLists, c \in Contexts}

NodeOf(d, uid) == CHOOSE n \in d.nodes : n.uid = uid

\* MATCH (n)-[r]-(m) WHERE n.note_id = $note_id OR m.note_id = $note_id
Touching(d, note_id) ==
    {r \in d.rels : \/ NodeOf(d, r.from).note_id = note_id
                    \/ NodeOf(d, r.to).note_id = note_id}

\* lines 43-47: DELETE r, n, m for every match.  A node without a
\* relationship is in no match.
ClearNote(d, note_id) ==
    LET gone == Touching(d, note_id)
        ends == {r.from : r \in gone} \cup {r.to : r \in gone}
    IN  [d EXCEPT !.rels = @ \ gone,
                  !.nodes = {n \in @ : n.uid \notin ends}]

\* lines 50-58: one CREATE per node of the list
RECURSIVE CreateNodes(_, _, _)
CreateNodes(d, note_id, nodes) ==
    IF nodes = <<>> THEN d
    ELSE CreateNodes([d EXCEPT !.nodes = @ \cup {[uid |-> d.next, label |-> "",
                                                   id |-> Head(nodes),
                                                   note_id |-> note_id,
                                                   context |-> ""]},
                               !.next = @ + 1],
                     note_id, Tail(nodes))

\* MATCH (a {id: $from_id, note_id: $note_id}), (b {id: $to_id, note_id: $note_id})
Matched(d, note_id, from_id, to_id) ==
    {<<a.uid, b.uid>> : <<a, b>> \in
        {p \in d.nodes \X d.nodes : /\ p[1].id = from_id /\ p[1].note_id = note_id
                                     /\ p[2].id = to_id /\ p[2].note_id = note_id}}

\* lines 61-72: one statement per edge; CREATE runs once per matched pair
RECURSIVE CreateEdges(_, _, _)
CreateEdges(d, note_id, edges) ==
    IF edges = <<>> THEN d
    ELSE CreateEdges([d EXCEPT !.rels = @ \cup {[from |-> m[1], to |-> m[2],
                                                  made |-> d.next] :
                                                    m \in Matched(d, note_id,
                                                                  Head(edges)[1],
                                                                  Head(edges)[2])},
                               !.next = @ + 1],
                     note_id, Tail(edges))

\* lines 75-81
CreateMetadata(d, note_id, context) ==
    [d EXCEPT !.nodes = @ \cup {[uid |-> d.next, label |-> "NoteMetadata",
                                 id |-> "", note_id |-> note_id,
                                 context |-> context]},
              !.next = @ + 1]

\* the try block, lines 41-85
StoreSubgraph(d, note_id, data) ==
    CreateMetadata(CreateEdges(CreateNodes(ClearNote(d, note_id), note_id, data.nodes),
                               note_id, data.edges),
                   note_id, data.context)

InitGraphDb ==
    /\ ExtIdle
    /\ NotesIdle
    /\ mode = "graphdb"
    /\ pc = "ready"
    /\ sim \in SimFunctions(DEFAULT_THRESHOLD)
    /\ constructed = {"neo4j_handler"}
    /\ index = <<>> /\ added = <<>> /\ lastSearch = <<>>
    /\ similar_pairs = <<>>
    /\ embedCalls = 0 /\ searchCalls = 0
    /\ failure = "none"

GraphDbUnchanged ==
    UNCHANGED <<noteVars, mode, sim, pc, index, added, similar_pairs, lastSearch,
                embedCalls, searchCalls, failure, indexer2, frames, rpc, splits,
                graph, config, query_engine, query_str, similar_docs, queue,
                visited, traversal_path, result>>

\* create_note_subgraph, lines 28-85: every statement runs, returns True.
CreateNoteSubgraph ==
    /\ mode = "graphdb"
    /\ Len(subgraphCalls) < MaxSubgraphCalls
    /\ \E note_id \in NoteIds, data \in SubgraphData :
          /\ db' = StoreSubgraph(db, note_id, data)
          /\ subgraphCalls' = Append(subgraphCalls,
                                     [note_id |-> note_id, data |-> data, ok |-> TRUE])
    /\ GraphDbUnchanged

\* lines 86-88: the database cannot be reached, the first statement raises,
\* nothing is stored, returns False.
CreateNoteSubgraphFails ==
    /\ mode = "graphdb"
    /\ Len(subgraphCalls) < MaxSubgraphCalls
    /\ \E note_id \in NoteIds, data \in SubgraphData :
          subgraphCalls' = Append(subgraphCalls,
                                  [note_id |-> note_id, data |-> data, ok |-> FALSE])
    /\ UNCHANGED db
    /\ GraphDbUnchanged

NextGraphDb ==
    \/ CreateNoteSubgraph
    \/ CreateNoteSubgraphFails

SpecGraphDb == InitGraphDb /\ [][NextGraphDb]_vars

----------------------------------------------------------------------------

Next ==
    \/ ApiInit
    \/ ApiReceive
    \/ ApiProcessNote
    \/ ApiBuildEntries
    \/ ApiEmbed
    \/ ApiSearch
    \/ ApiLoop
    \/ ApiRespond
    \/ MainInit
    \/ MainLoadIndex
    \/ MainLoadNotes
    \/ MainProcessNote
    \/ MainBuildEntries
    \/ MainAdd
    \/ MainSave
    \/ FgsSearch
    \/ FgsLoop
    \/ FgsReturn

Spec == Init /\ [][Next]_vars

\* submit_notes and find_and_generate_suggestions on the four-entry case
NextFour ==
    \/ ApiInit
    \/ ApiReceive
    \/ ApiProcessNote
    \/ ApiBuildEntries
    \/ ApiEmbed
    \/ ApiSearch
    \/ ApiLoop
    \/ ApiRespond
    \/ FgsSearch
    \/ FgsLoop
    \/ FgsReturn

SpecFour == InitFour /\ [][NextFour]_vars

----------------------------------------------------------------------------
(* Properties *)

Range(q) == {q[k] : k \in 1..Len(q)}

KindAt(p) == entries[p + 1][2]

TextAt(p) == entries[p + 1][1]

NoteAt(p) == entries[p + 1][3]

ScoreOf(i, j) == sim[<<TextAt(i), TextAt(j)>>]

Positions == 0..(Len(entries) - 1)

\* C1: no pair the search emits, and no pair that passes the type filter, has
\* its query position equal to its result position.
C1_NoSelfMatch ==
    /\ \A p \in Range(similar_pairs) : p[1] # p[2]
    /\ \A m \in Range(matches) : m[1] # m[2]

\* A finished run with a suggestion in which an entry has a twin with the same
\* vector, so that its own vector ties for the top hit at score 1.0.
C1_Witness ==
    /\ pc = "done" /\ searchCalls = 1 /\ matches # <<>>
    /\ \E i, j \in Positions : i # j /\ ScoreOf(i, j) = UnitScore
    /\ \A i \in Positions : ScoreOf(i, i) = UnitScore

\* C2: every pair that passes the filter, and every generator call, joins a
\* need (query) to an availability (result).
C2_DirectionalTypeFilter ==
    /\ \A m \in Range(matches) : KindAt(m[1]) = "need" /\ KindAt(m[2]) = "availability"
    /\ Len(calls) = Len(matches)
    /\ Len(suggestions) <= Len(matches)
    /\ \A k \in 1..Len(suggestions) :
          /\ suggestions[k].need = TextAt(matches[k][1])
          /\ suggestions[k].availability = TextAt(matches[k][2])

\* The search emitted need->need, availability->availability and
\* availability->need pairs above the threshold, and the run got to its end.
C2_Witness ==
    /\ pc = "done" /\ matches # <<>>
    /\ \E p \in Range(similar_pairs) : KindAt(p[1]) = "need" /\ KindAt(p[2]) = "need"
    /\ \E p \in Range(similar_pairs) :
          KindAt(p[1]) = "availability" /\ KindAt(p[2]) = "need"

NeedPositions == {p \in Positions : KindAt(p) = "need"}

AvailabilityPositions == {p \in Positions : KindAt(p) = "availability"}

\* The pairs of similar_pairs that join a need to an availability, in order.
NeedToAvailability(pairs) ==
    SelectSeq(pairs, LAMBDA p : KindAt(p[1]) = "need" /\ KindAt(p[2]) = "availability")

FourCase ==
    /\ Len(entries) = 4
    /\ Cardinality(NeedPositions) = 2
    /\ Cardinality(AvailabilityPositions) = 2
    /\ \A i, j \in Positions : i # j => ScoreOf(i, j) > Threshold

\* C3: with two needs and two availabilities whose pairwise scores all exceed
\* the threshold, the search emits each of the four need->availability pairs
\* exactly once, and a run that reaches its end has retained exactly those.
C3_FourEntryCompleteness ==
    (searchCalls = 1 /\ FourCase) =>
        LET kept == NeedToAvailability(similar_pairs)
        IN  /\ Len(kept) = 4
            /\ {<<p[1], p[2]>> : p \in Range(kept)}
                  = NeedPositions \X AvailabilityPositions
            /\ Len(matches) <= 4
            /\ matches = SubSeq(kept, 1, Len(matches))
            /\ (pc = "done" => matches = kept)

\* Both entry points finish the four-entry case with four matches.
C3_Witness ==
    /\ FourCase /\ pc = "done" /\ Len(matches) = 4 /\ Len(suggestions) = 4
    /\ KindAt(0) = "need" /\ KindAt(1) = "availability"

\* C4: the threshold is strict.  When the search has run, a pair of distinct
\* positions whose score equals the threshold is not emitted, and one whose
\* score exceeds it is (FAISS returns every stored vector while the index
\* holds at most top_k of them).  similar_pairs is written by the search
\* alone, so it is read before the loop has moved.
C4_StrictThreshold ==
    (searchCalls = 1 /\ pairIdx = 0) =>
        \A i, j \in Positions :
            i # j =>
                /\ ScoreOf(i, j) = Threshold =>
                      \A p \in Range(similar_pairs) : ~(p[1] = i /\ p[2] = j)
                /\ (ScoreOf(i, j) > Threshold /\ (mode = "api" \/ Len(index) <= TOP_K)) =>
                      <<i, j, ScoreOf(i, j)>> \in Range(similar_pairs)

\* A search over entries of which one pair scores exactly the threshold and
\* another pair scores above it.
C4_Witness ==
    /\ searchCalls = 1 /\ pairIdx = 0
    /\ \E i, j \in Positions : i # j /\ ScoreOf(i, j) = Threshold
    /\ \E i, j \in Positions : i # j /\ ScoreOf(i, j) > Threshold

\* The entry list has been built by submit_notes or main.
Built ==
    /\ mode \in {"api", "main"}
    /\ \/ pc \in {"search", "find", "loop", "return", "index", "save"}
       \/ (pc \in {"done", "crashed"} /\ noteIdx = Len(notes) /\ notes # <<>>)

NatSize(nat) == Len(nat.needs) + Len(nat.avails)

\* Number of entries of the notes before the m-th.
RECURSIVE OffsetOf(_, _)
OffsetOf(ns, m) == IF m <= 1 THEN 0 ELSE OffsetOf(ns, m - 1) + NatSize(ns[m - 1])

\* C5: the entry list is, note by note in note order, the note's needs in list
\* order followed by its availabilities in list order; the entry at list
\* index k (from 0) is the k-th phrase so counted, and empty lists add nothing.
C5_EntryOrder ==
    Built =>
        /\ Len(entries) = OffsetOf(nats, Len(nats) + 1)
        /\ \A m \in 1..Len(nats) :
              /\ \A k \in 1..Len(nats[m].needs) :
                    entries[OffsetOf(nats, m) + k]
                        = <<nats[m].needs[k], "need", nats[m].id>>
              /\ \A k \in 1..Len(nats[m].avails) :
                    entries[OffsetOf(nats, m) + Len(nats[m].needs) + k]
                        = <<nats[m].avails[k], "availability", nats[m].id>>
        /\ \A m, n \in 1..Len(nats) : m < n => nats[m].id < nats[n].id

\* The notes [{needs: [a], avail: [b]}, {needs: [], avail: [a]}] flattened.
C5_Witness ==
    /\ Built
    /\ entries = << <<"a", "need", 0>>, <<"b", "availability", 0>>,
                    <<"a", "availability", 1>> >>

\* What the notes that parsed into objects contribute, note by note.
RECURSIVE ObjectNats(_, _)
ObjectNats(batch, k) ==
    IF k > Len(batch) THEN <<>>
    ELSE (IF batch[k].kind = "object"
          THEN <<[id |-> k - 1, needs |-> batch[k].needs, avails |-> batch[k].avails]>>
          ELSE <<>>) \o ObjectNats(batch, k + 1)

\* C6: a note whose extraction output cannot be parsed into the expected
\* object contributes no entries and does not stop the batch: a run that has
\* ended went through every note, did not answer with a bare failure, and
\* built the entries of all the other notes.
C6_MalformedNoteIsolation ==
    (mode \in {"api", "main"} /\ pc \in {"done", "crashed"}
        /\ \E k \in 1..Len(notes) : notes[k].kind # "object"
        /\ \E n \in 1..Len(notes) : notes[n].kind = "object" /\ notes[n].needs # <<>>) =>
        /\ noteIdx = Len(notes)
        /\ response # "500"
        /\ entries = BuildEntries(ObjectNats(notes, 1))

\* The part of C6 the code keeps: output that json.loads rejects is isolated.
UnparseableNoteIsolation ==
    (mode \in {"api", "main"} /\ pc \in {"done", "crashed"} /\ notes # <<>>
        /\ artifacts = "absent"
        /\ \A k \in 1..Len(notes) : notes[k].kind # "nonobject") =>
        /\ noteIdx = Len(notes)
        /\ response # "500"
        /\ entries = BuildEntries(ObjectNats(notes, 1))

IsFallbackText(t) == t[1] # "generated"

\* C7: a generator call that fails, by raising or otherwise, still yields a
\* record with a fallback text, the run goes on, and there is one record per
\* retained match, the records of the other matches carrying their generated
\* text.
C7_SuggestionFailureIsolation ==
    /\ failure # "GeneratorError"
    /\ Len(suggestions) = Len(matches)
    /\ \A k \in 1..Len(suggestions) :
          /\ outcomes[k] # "generated" => IsFallbackText(suggestions[k].suggestion)
          /\ outcomes[k] = "generated" =>
                suggestions[k].suggestion = <<"generated", calls[k][1], calls[k][2]>>

\* The same statement on submit_notes alone, where it holds.
ApiSuggestionFailureIsolation == mode = "api" => C7_SuggestionFailureIsolation

\* And on every entry point for the failures sgllm.generate catches itself.
CaughtFailureIsolation ==
    (\A k \in 1..Len(outcomes) : outcomes[k] # "raise") =>
        C7_SuggestionFailureIsolation

\* Number of pairs of similar_pairs the loop has gone through.
Processed == IF failure = "GeneratorError" THEN pairIdx + 1 ELSE pairIdx

\* C8: the generator calls made so far are, in order and one each, the
\* (need text, availability text) of the need->availability pairs among the
\* pairs the loop has gone through; a run that reaches its end has gone
\* through all of them.
C8_OneCallPerMatch ==
    LET kept == NeedToAvailability(SubSeq(similar_pairs, 1, Processed))
    IN  /\ Len(calls) = Len(kept)
        /\ \A k \in 1..Len(kept) :
              calls[k] = <<TextAt(kept[k][1]), TextAt(kept[k][2])>>
        /\ matches = kept
        /\ (pc = "done" /\ searchCalls = 1) => Processed = Len(similar_pairs)

\* A finished run with two calls, a filtered-out pair among the emitted ones,
\* and a call whose two texts differ.
C8_Witness ==
    /\ pc = "done" /\ Len(calls) >= 2 /\ Len(similar_pairs) > Len(calls)
    /\ \E k \in 1..Len(calls) : calls[k][1] # calls[k][2]

\* C9: submit_notes returns one record per retained match, in match order,
\* the k-th carrying identifier sugg_k.
C9_OutputNumbering ==
    mode = "api" =>
        LET kept == NeedToAvailability(SubSeq(similar_pairs, 1, pairIdx))
        IN  /\ Len(suggestions) = Len(kept)
            /\ \A k \in 1..Len(suggestions) :
                  /\ suggestions[k].id = SuggId(k)
                  /\ suggestions[k].need = TextAt(kept[k][1])
                  /\ suggestions[k].availability = TextAt(kept[k][2])
            /\ (response = "200" /\ searchCalls = 1) => pairIdx = Len(similar_pairs)

\* A 200 response with two records between whose pairs a filtered-out pair
\* was emitted.
C9_Witness ==
    /\ mode = "api" /\ response = "200" /\ Len(suggestions) >= 2
    /\ \E a, b, c \in 1..Len(similar_pairs) :
          /\ a < b /\ b < c
          /\ KindAt(similar_pairs[a][1]) = "need"
          /\ KindAt(similar_pairs[a][2]) = "availability"
          /\ KindAt(similar_pairs[b][2]) = "need"
          /\ KindAt(similar_pairs[c][1]) = "need"
          /\ KindAt(similar_pairs[c][2]) = "availability"

\* C10: every record submit_notes returns carries the identifier, both texts,
\* the suggestion text, the score of its match and the note ids of both the
\* need and the availability.
C10_RecordFields ==
    mode = "api" =>
        \A k \in 1..Len(suggestions) :
            LET r == suggestions[k]
                m == matches[k]
            IN  /\ r.id = SuggId(k)
                /\ r.need = TextAt(m[1])
                /\ r.availability = TextAt(m[2])
                /\ "suggestion" \in DOMAIN r
                /\ r.noteId = Str(NoteAt(m[1]))
                /\ "score" \in DOMAIN r
                /\ r.score = m[3]
                /\ "availabilityNoteId" \in DOMAIN r
                /\ r.availabilityNoteId = Str(NoteAt(m[2]))

\* What the records do carry.
RecordFieldsPresent ==
    mode = "api" =>
        \A k \in 1..Len(suggestions) :
            /\ DOMAIN suggestions[k] = {"id", "noteId", "need", "availability", "suggestion"}
            /\ suggestions[k].noteId = Str(NoteAt(matches[k][1]))

\* C11: the retained matches come grouped by query position in ascending
\* order, and within one query position their scores never increase from one
\* match to the next.
C11_MatchOrder ==
    \A a, b \in 1..Len(matches) :
        a < b =>
            /\ matches[a][1] <= matches[b][1]
            /\ matches[a][1] = matches[b][1] => matches[a][3] >= matches[b][3]

\* The grouping alone, which both searches keep.
MatchesGroupedByQuery ==
    \A a, b \in 1..Len(matches) : a < b => matches[a][1] <= matches[b][1]

\* C11 on find_and_generate_suggestions, whose pairs come from the index.
FaissMatchOrder == mode = "fgs" => C11_MatchOrder

\* C13: a batch of zero notes is not an error: the run ends without an error
\* status or an exception, with an empty suggestion set.
C13_EmptyInputNotError ==
    (mode \in {"api", "main"} /\ notes = <<>> /\ pc \in {"done", "crashed"}) =>
        /\ response \notin {"400", "500"}
        /\ failure = "none"
        /\ suggestions = <<>>

\* C13 on the rebuild path of main(), which prints a notice and returns.
MainEmptyInput ==
    (mode = "main" /\ artifacts = "absent") => C13_EmptyInputNotError

\* C14: while the entry list is empty no embedding call, no similarity search
\* and no generator call is made, and the suggestion set is empty; a run
\* whose notes yield no entry ends that way.
C14_NoWorkOnEmptyEntries ==
    entries = <<>> =>
        /\ embedCalls = 0
        /\ searchCalls = 0
        /\ calls = <<>>
        /\ suggestions = <<>>
        /\ similar_pairs = <<>>

\* A run over notes that parsed into objects with both lists empty has ended.
C14_Witness ==
    /\ pc = "done" /\ notes # <<>> /\ noteIdx = Len(notes)
    /\ \E k \in 1..Len(notes) : notes[k].kind = "object"
    /\ entries = <<>>
    /\ failure = "none"

\* C19: no call of SuggestionGenerator.generate raises; a call that does not
\* get the service's text returns the fallback literal.
C19_GenerateFailsClosed ==
    \A k \in 1..Len(outcomes) :
        /\ outcomes[k] # "raise"
        /\ (outcomes[k] # "generated" /\ k <= Len(suggestions)) =>
              suggestions[k].suggestion = GeneratorFallback

\* What the two except clauses do achieve: a call that returns without the
\* service's text returns the fallback literal.
CaughtFailuresReturnFallback ==
    \A k \in 1..Len(suggestions) :
        outcomes[k] = "fallback" => suggestions[k].suggestion = GeneratorFallback

\* C20: when the credential is missing from the environment the run stops at
\* its initialisation: no collaborator is constructed or called and no note
\* is processed.
C20_MissingCredentialAborts ==
    apiKey # "set" =>
        /\ pc \in {"init", "aborted"}
        /\ constructed = {}
        /\ noteIdx = 0 /\ nats = <<>> /\ entries = <<>>
        /\ embedCalls = 0 /\ searchCalls = 0
        /\ calls = <<>> /\ suggestions = <<>>
        /\ index = <<>> /\ added = <<>> /\ lastSearch = <<>>

\* A run with notes waiting whose credential is not in the environment has
\* been aborted.
C20_Witness ==
    /\ apiKey = "unset" /\ pc = "aborted" /\ notes # <<>>
    /\ \E k \in 1..Len(notes) : notes[k].needs # <<>>

\* The search whose result similar_pairs holds.
Searched == lastSearch # <<>>

Args == lastSearch[1]

\* Number of results the search reported for query row i.
ResultsOf(i) == Cardinality({k \in 1..Len(similar_pairs) : similar_pairs[k][1] = i})

\* C12: for every query vector the search returns at most top_k results, and
\* the score of every result is strictly greater than the threshold.
C12_SearchBounds ==
    Searched =>
        /\ \A p \in Range(similar_pairs) :
              /\ ResultsOf(p[1]) <= Args.top_k
              /\ p[3] > Args.threshold
        /\ Len(similar_pairs) <= Args.top_k * Len(Args.query.data)

\* A search with top_k = 2 and the default threshold over three stored
\* vectors: a query row got its two results, and a stored vector scoring
\* exactly the threshold was left out.
C12_Witness ==
    /\ Searched /\ pc = "searched"
    /\ Args.ntotal = 3 /\ Args.top_k = 2
    /\ Args.threshold = DEFAULT_THRESHOLD
    /\ \E p \in Range(similar_pairs) : ResultsOf(p[1]) = 2
    /\ \E i \in 1..Len(Args.query.data), j \in 1..Len(index) :
          /\ InnerProduct(Args.query.data[i], index[j]) = DEFAULT_THRESHOLD
          /\ \A p \in Range(similar_pairs) : ~(p[1] = i - 1 /\ p[2] = j - 1)

\* C15: a search whose query vectors have another width than the index is
\* surfaced to the caller as an error.
C15_WrongDimensionIsFatal ==
    (pc = "searched" /\ Args.query.dim # INDEX_DIM) => failure # "none"

\* What the search does with such a query: it returns the empty list.
WrongDimensionSearchIsEmpty ==
    (pc = "searched" /\ Args.query.dim # INDEX_DIM) =>
        failure = "none" /\ similar_pairs = <<>>

\* C16: a search of an index holding fewer than top_k vectors returns
\* normally and reports stored positions only; on an empty index it returns
\* the empty list.
C16_UnderfilledIndex ==
    (pc = "searched" /\ Args.ntotal < Args.top_k) =>
        /\ failure = "none"
        /\ \A p \in Range(similar_pairs) : 0 <= p[2] /\ p[2] < Args.ntotal
        /\ Args.ntotal = 0 => similar_pairs = <<>>

\* A search with top_k = 5 and a threshold below every score over two stored
\* vectors has returned results.
C16_Witness ==
    /\ pc = "searched" /\ Args.ntotal = 2 /\ Args.top_k = TOP_K
    /\ Args.threshold < -UnitScore
    /\ similar_pairs # <<>>

\* The rows of the arrays a log of add calls holds, call after call.
RECURSIVE RowsOf(_)
RowsOf(log) ==
    IF log = <<>> THEN <<>>
    ELSE (IF Head(log).ndim = 1 THEN <<Head(log).data>> ELSE Head(log).data)
         \o RowsOf(Tail(log))

\* C17: the index holds the vectors inserted so far, the n-th of them at
\* position n-1, a single vector counting as one row; no step changes what a
\* position already holds.
C17_AppendOnly ==
    /\ [](index = RowsOf(added))
    /\ [][/\ Len(index') >= Len(index)
          /\ \A k \in 1..Len(index) : index'[k] = index[k]]_vars

\* Three vectors stored by a single-vector call followed by a batch of two.
C17_Witness ==
    /\ Len(added) = 2 /\ added[1].ndim = 1 /\ added[2].ndim = 2
    /\ Len(index) = 3 /\ index[1] # index[2]

\* The arrays do not match the entry list in length.
Desynced ==
    \/ Len(embeddings) # Len(entries)
    \/ mode = "fgs" /\ Len(index) # Len(entries)

\* C18: when the number of stored vectors or of embeddings differs from the
\* number of entries the run stops with an error, with no generator call made
\* and no suggestion produced.
C18_DesyncIsFatal ==
    (Desynced /\ pc \in {"done", "crashed"}) =>
        /\ failure # "none"
        /\ calls = <<>>
        /\ suggestions = <<>>

\* Nothing submit_notes does brings its own arrays out of step: it embeds
\* the entry list it has just built.
SubmitNotesInStep ==
    (mode = "api" /\ pc \in {"find", "loop", "return"}) =>
        Len(embeddings) = Len(entries)

\* main() with the cached files in place stops at line 98, before it compares
\* the index with the embeddings.
MainLoadPathStops ==
    (mode = "main" /\ artifacts = "present" /\ pc \notin {"init", "start", "aborted"}) =>
        /\ pc = "crashed" /\ failure = "AttributeError"
        /\ searchCalls = 0 /\ embedCalls = 0

\* The entries whose note id is n, in list order.
EntriesOfNote(n) == SelectSeq(entries, LAMBDA e : e[3] = n)

\* C22: every entry carries the index its note has in the input batch: the
\* entries with note id n are the needs, then the availabilities, of the n-th
\* note of the batch, also when notes before it were skipped or gave nothing.
C22_SourceNoteId ==
    Built =>
        /\ \A p \in Positions : 0 <= NoteAt(p) /\ NoteAt(p) < Len(notes)
        /\ \A n \in 0..(Len(notes) - 1) :
              EntriesOfNote(n) =
                  IF notes[n + 1].kind = "object"
                  THEN [k \in 1..Len(notes[n + 1].needs) |->
                            <<notes[n + 1].needs[k], "need", n>>]
                       \o [k \in 1..Len(notes[n + 1].avails) |->
                            <<notes[n + 1].avails[k], "availability", n>>]
                  ELSE <<>>

\* The first note could not be parsed and was skipped, the second one gave
\* the entries, which carry note id 1.
C22_Witness ==
    /\ Built /\ mode = "main" /\ Len(notes) = 2
    /\ notes[1].kind = "unparseable"
    /\ entries # <<>> /\ NoteAt(0) = 1

\* C23: every retained match joins entries that come from two different
\* notes.
C23_CrossNoteOnly ==
    \A m \in Range(matches) : NoteAt(m[1]) # NoteAt(m[2])

\* C23 as the code has it: a retained match joins a need to an availability at
\* another position of the entry list, and the notes of the two play no part:
\* once the loop is through, every need is matched with every availability
\* the search emitted for it, those of its own note included.
C23_MatchesIgnoreNotes ==
    /\ \A m \in Range(matches) :
          /\ m[1] # m[2]
          /\ KindAt(m[1]) = "need" /\ KindAt(m[2]) = "availability"
    /\ (pc = "done" /\ searchCalls = 1 /\ failure = "none") =>
          \A p \in Range(similar_pairs) :
              (KindAt(p[1]) = "need" /\ KindAt(p[2]) = "availability") =>
                  p \in Range(matches)

\* A finished run that retained a match within one note and a match between
\* two notes.
C23_Witness ==
    /\ pc = "done" /\ failure = "none"
    /\ \E m \in Range(matches) : NoteAt(m[1]) = NoteAt(m[2])
    /\ \E m \in Range(matches) : NoteAt(m[1]) # NoteAt(m[2])

PairOf(m) == <<m[1], m[2]>>

\* C24: no (query position, result position) pair appears twice among the
\* pairs the search emits or among the retained matches, so no two suggestion
\* records refer to the same pair of entry positions.
C24_NoDuplicatePairs ==
    /\ \A a, b \in 1..Len(similar_pairs) :
          a # b => PairOf(similar_pairs[a]) # PairOf(similar_pairs[b])
    /\ \A a, b \in 1..Len(matches) :
          a # b => PairOf(matches[a]) # PairOf(matches[b])
    /\ Len(suggestions) <= Len(matches)

\* A finished run with two records whose texts are the same and whose pairs
\* of positions differ.
C24_Witness ==
    /\ pc = "done" /\ Len(suggestions) >= 2 /\ Len(matches) = Len(suggestions)
    /\ \E a, b \in 1..Len(matches) :
          /\ a # b
          /\ TextAt(matches[a][1]) = TextAt(matches[b][1])
          /\ TextAt(matches[a][2]) = TextAt(matches[b][2])

\* C27: a run of main() that has added the embeddings of its entries to the
\* index goes on to the search-and-suggest step: when it has ended it has
\* searched the index, and no exception has ended it before.
C27_RebuildReachesSuggestions ==
    (mode = "main" /\ added # <<>> /\ pc \in {"done", "crashed"}) =>
        /\ failure # "AttributeError"
        /\ searchCalls = 1

\* What main() does on the rebuild path: every run that gets to add its
\* embeddings ends at line 164, before anything is written or searched.
MainRebuildStopsAtSave ==
    (mode = "main" /\ added # <<>>) =>
        /\ pc \in {"save", "crashed"}
        /\ searchCalls = 0 /\ calls = <<>> /\ suggestions = <<>>
        /\ pc = "crashed" => failure = "AttributeError"

AloneMatches(batch) ==
    LET es == BuildEntries(ApiNats(batch))
    IN  SelectSeq(ApiSimilarPairs(Embeddings(es)),
                  LAMBDA p : TypeFilter(es, p[1], p[2]))

\* What submit_notes returns for a batch handled on its own, given how its
\* generator calls end: one record per such pair.
AloneSuggestions(batch, os) ==
    LET es   == BuildEntries(ApiNats(batch))
        kept == AloneMatches(batch)
    IN  [k \in 1..Len(kept) |->
            ApiRecord(es, kept[k][1], kept[k][2], kept[k][3], k,
                      IF os[k] = "raise" THEN OrchestratorFallback
                      ELSE ReturnedText(os[k], TextOf(es, kept[k][1]),
                                        TextOf(es, kept[k][2])))]

\* C26: of two requests handled at the same time, each is answered with the
\* suggestions its own notes give when handled alone, and the module-level
\* index is never written.
C26_RequestsIsolated ==
    mode = "concurrent" =>
        /\ index = <<>> /\ added = <<>> /\ lastSearch = <<>>
        /\ \A r \in Requests :
              (rpc[r].at = "done" /\ rpc[r].response = "200") =>
                  /\ Len(rpc[r].outcomes) = Len(AloneMatches(rpc[r].notes))
                  /\ Len(rpc[r].suggestions) = Len(AloneMatches(rpc[r].notes))
                  /\ rpc[r].suggestions
                        = AloneSuggestions(rpc[r].notes, rpc[r].outcomes)

\* Two requests with different notes have both been answered with a
\* suggestion, the second having built its entries and its embeddings while
\* the first was between its own steps.
C26_Witness ==
    /\ mode = "concurrent"
    /\ rpc[1].at = "done" /\ rpc[2].at = "done"
    /\ rpc[1].notes # rpc[2].notes
    /\ rpc[1].suggestions # <<>> /\ rpc[2].suggestions # <<>>
    /\ rpc[1].suggestions # rpc[2].suggestions

\* C21: after GraphRAGIntegration.process_documents is called with documents
\* it has completed without raising and has set the query engine, and a query
\* made afterwards is answered with a (response, traversal_path,
\* relevant_content) triple instead of being refused.
C21_ProcessThenQuery ==
    (mode = "rag" /\ splits # <<>>) =>
        /\ pc # "save" => (failure = "none" /\ query_engine = "set")
        /\ query_str # "" => (Len(result) = 1 /\ failure # "ValueError")

\* What the code does instead: process_documents stops at save_index, the
\* query engine is never set and every query is refused.
IntegrationNeverBuilt ==
    mode = "rag" =>
        /\ query_engine = "None" /\ result = <<>> /\ graph = NoGraph
        /\ pc = "failed" => failure = "AttributeError"
        /\ pc = "refused" => failure = "ValueError"

\* The positions of the stored chunks listed in similar_docs.
HitPositions == {similar_docs[k][2] : k \in 1..Len(similar_docs)}

\* Stored chunk j (counted from 0) is among the top_k hits for the query and
\* scores above the threshold.
GoodHit(j) ==
    /\ FaissRank(index, Embed(query_str), j + 1) < TOP_K
    /\ InnerProduct(Embed(query_str), index[j + 1]) > config.similarity_threshold

\* C28: QueryEngine.query searching with one external query embedding returns
\* every stored chunk that is among the top_k hits and scores above the
\* threshold, whatever the position the chunk is stored at.
C28_EveryGoodHitReturned ==
    (mode = "engine" /\ pc # "ready") =>
        \A j \in 0..(Len(index) - 1) : GoodHit(j) => j \in HitPositions

\* What the code does instead: the chunk stored at position 0 is never
\* returned, and a chunk at any other position is returned exactly when it
\* is a good hit.
EngineSearchDropsFirstChunk ==
    (mode = "engine" /\ pc # "ready") =>
        /\ 0 \notin HitPositions
        /\ \A j \in 1..(Len(index) - 1) : GoodHit(j) <=> j \in HitPositions

\* The nodes that can be reached from node n in the graph.
RECURSIVE ReachableFrom(_, _)
ReachableFrom(g, seen) ==
    LET more == seen \cup {x \in g.nodes : \E n \in seen : {n, x} \in g.edges}
    IN  IF more = seen THEN seen ELSE ReachableFrom(g, more)

TraversalSafe ==
    (mode = "traversal" /\ pc \in {"bfs", "combine"}) =>
        /\ \A a, b \in 1..Len(traversal_path) :
              traversal_path[a] = traversal_path[b] => a = b
        /\ Len(traversal_path) <= config.max_traversal_depth
        /\ traversal_path # <<>> => traversal_path[1] = similar_docs[1][2]
        /\ pc = "combine" => (similar_docs = <<>> <=> traversal_path = <<>>)

\* C29: _graph_traversal returns on every graph, cycles included; its path
\* starts at the top-ranked hit, holds no node twice and has at most
\* max_traversal_depth nodes; without hits the path is empty.
C29_TraversalTerminates ==
    /\ []TraversalSafe
    /\ (mode = "traversal" /\ pc = "traverse") ~> (pc = "combine")

\* Returned from a graph with a cycle through the start node, cut short by
\* max_traversal_depth with nodes still waiting in the queue.
C29_Witness ==
    /\ mode = "traversal" /\ pc = "combine"
    /\ similar_docs # <<>>
    /\ Len(traversal_path) = config.max_traversal_depth
    /\ queue # <<>>
    /\ \E a, b, c \in graph.nodes :
          /\ {{a, b}, {b, c}, {a, c}} \subseteq graph.edges
          /\ Cardinality({a, b, c}) = 3
          /\ traversal_path[1] = a
    /\ Cardinality(ReachableFrom(graph, {similar_docs[1][2]})) > Len(traversal_path)

\* Returned from a graph with a cycle after every reachable node was visited.
TraversalExhaustsCycle ==
    ~(/\ mode = "traversal" /\ pc = "combine"
      /\ Cardinality(graph.edges) = 3
      /\ Len(traversal_path) = 3
      /\ queue = <<>>)

\* The calls of create_note_subgraph for a note that returned True, in order.
StoredCalls(note_id) ==
    SelectSeq(subgraphCalls, LAMBDA c : c.ok /\ c.note_id = note_id)

\* The stored nodes of a note that carry the given label.
NoteNodes(note_id, label) ==
    {n \in db.nodes : n.note_id = note_id /\ n.label = label}

\* The database holds for the note exactly what the call's data describes.
HoldsExactly(note_id, data) ==
    /\ Cardinality(NoteNodes(note_id, "")) = Len(data.nodes)
    /\ {n.id : n \in NoteNodes(note_id, "")} = {data.nodes[k] : k \in 1..Len(data.nodes)}
    /\ \A r \in Touching(db, note_id) :
          \E k \in 1..Len(data.edges) :
             /\ NodeOf(db, r.from).id = data.edges[k][1]
             /\ NodeOf(db, r.to).id = data.edges[k][2]
    /\ Cardinality(Touching(db, note_id))
          = Cardinality({k \in 1..Len(data.edges) :
                            /\ \E a \in 1..Len(data.nodes) : data.nodes[a] = data.edges[k][1]
                            /\ \E b \in 1..Len(data.nodes) : data.nodes[b] = data.edges[k][2]})
    /\ Cardinality(NoteNodes(note_id, "NoteMetadata")) = 1
    /\ \A n \in NoteNodes(note_id, "NoteMetadata") : n.context = data.context

\* C30: create_note_subgraph replaces the stored subgraph of the note: the
\* database holds for a note exactly the nodes, the relationships and one
\* NoteMetadata record of the latest call made for it, and nothing of the
\* calls before.
C30_SubgraphReplaced ==
    mode = "graphdb" =>
        \A note_id \in NoteIds :
            StoredCalls(note_id) # <<>> =>
                HoldsExactly(note_id, StoredCalls(note_id)[Len(StoredCalls(note_id))].data)

\* What the code does instead: every call adds a NoteMetadata record and a
\* node for each entry of its list; only nodes that have a relationship are
\* ever removed, and no relationship joins two notes.
SubgraphsAccumulate ==
    mode = "graphdb" =>
        /\ \A note_id \in NoteIds :
              /\ Cardinality(NoteNodes(note_id, "NoteMetadata")) = Len(StoredCalls(note_id))
              /\ Len(StoredCalls(note_id)) = 1 =>
                    HoldsExactly(note_id, StoredCalls(note_id)[1].data)
        /\ \A r \in db.rels : NodeOf(db, r.from).note_id = NodeOf(db, r.to).note_id
        /\ \A r \in db.rels : {r.from, r.to} \subseteq {n.uid : n \in db.nodes}

============================================================================
